---------------------------- MODULE Spec2Model ----------------------------
(***************************************************************************)
(* A model of the kupi.cz prices-timeline crawler core:                    *)
(*   - CzechDateParser.parse_date_range   (src/utils/date_parser.py)       *)
(*   - parse_kupi_offers_from_text        (src/src_crawler/utils/          *)
(*                                         text_parser.py)                 *)
(*   - DataProcessor                      (src/src_crawler/main.py)        *)
(*                                                                         *)
(* A text is a sequence of one-character strings.  Characters outside      *)
(* ASCII are written by their code point ("U+010D" is c with caron), so a  *)
(* text stays a sequence of single characters.  Regular expressions are    *)
(* data (sequences of items) interpreted by a backtracking matcher with    *)
(* the priorities of Python's re module.                                   *)
(***************************************************************************)
EXTENDS Integers, Sequences, FiniteSets, TLC

VARIABLES
    text,          \* parse_date_range: the argument `text`
    pieces,        \* how `text` was composed (what the caller wrote)
    current_date,  \* CzechDateParser.current_date (the reference date)
    date_range,    \* parse_date_range: what the call returned or raised
    raw_text,      \* parse_kupi_offers_from_text: the argument `text`
    blocks,        \* how `raw_text` was composed (what the page showed)
    matched,       \* parse_kupi_offers_from_text: the offers of the matches found
    parsed,        \* parse_kupi_offers_from_text: what the call returned or raised
    clock,         \* the date datetime.now() gives
    date_parser,   \* per DataProcessor: self.date_parser.current_date
    crawl_result,  \* process_crawl_result: the argument `crawl_result`
    processed,     \* per DataProcessor: what process_crawl_result returned or raised
    field_text,    \* _parse_price, _parse_discount, _parse_store_count: the argument
    field_parts,   \* how `field_text` was composed (what the offer showed)
    field_result,  \* which of the three was called and what it returned
    call,          \* crawl_urls / crawl_urls_parallel: the method called and its arguments
    environ,       \* os.environ, as far as crawl_url reads it
    batch_pc,      \* where the batch method stands
    loop_i,        \* crawl_urls: the loop's i, counted from 1
    task_pc,       \* per URL: where its crawl_url call stands
    task_result,   \* per URL: the result_data its crawl_url call returned
    semaphore,     \* crawl_urls_parallel: the asyncio.Semaphore
    results,       \* what the batch method returns
    trace,         \* the fetches begun and ended, the delays slept and the waits for a slot, in order
    slug_url,      \* _extract_slug_from_url: the argument `url`
    slug_parts,    \* how `slug_url` was composed
    slug,          \* _extract_slug_from_url: what the call returned
    file_text,     \* load_urls_from_file: the content of the file, None when there is no file
    file_lines,    \* how `file_text` was composed, line by line
    loaded,        \* load_urls_from_file: what the call returned
    pc             \* "ready" before the call, "done" after it

resolverVars == <<text, pieces, current_date, date_range>>

parserVars == <<raw_text, blocks, matched, parsed>>

processorVars == <<clock, date_parser, crawl_result, processed>>

fieldVars == <<field_text, field_parts, field_result>>

\* the variables of the parts added after the resolver, the text parser
\* and the processor
crawlerVars ==
    <<call, environ, batch_pc, loop_i, task_pc, task_result, semaphore, results, trace>>

slugVars == <<slug_url, slug_parts, slug>>

loadVars == <<file_text, file_lines, loaded>>

utilVars == <<slugVars, loadVars>>

otherVars == <<fieldVars, crawlerVars, utilVars>>

vars == <<resolverVars, parserVars, processorVars, otherVars, pc>>

(***************************************************************************)
(* Characters                                                              *)
(***************************************************************************)
a_acute == "U+00E1"
i_acute == "U+00ED"
c_caron == "U+010D"
e_caron == "U+011B"
r_caron == "U+0159"
z_caron == "U+017E"
s_caron == "U+0161"
C_caron == "U+010C"
R_caron == "U+0158"
en_dash == "U+2013"

Digits == <<"0", "1", "2", "3", "4", "5", "6", "7", "8", "9">>

DigitSet == {Digits[i] : i \in 1..10}

DigitVal(c) == (CHOOSE i \in 1..10 : Digits[i] = c) - 1

\* what \s matches and str.strip() removes
Whitespace == {" ", "\t", "\n", "\r"}

UpperCase == <<"A", "B", "C", "D", "E", "F", "G", "H", "I", "J", "K", "L", "M",
               "N", "O", "P", "Q", "R", "S", "T", "U", "V", "W", "X", "Y", "Z",
               C_caron, R_caron>>

LowerCase == <<"a", "b", "c", "d", "e", "f", "g", "h", "i", "j", "k", "l", "m",
               "n", "o", "p", "q", "r", "s", "t", "u", "v", "w", "x", "y", "z",
               c_caron, r_caron>>

\* str.lower() on one character
LowerChar(c) ==
    IF \E i \in 1..Len(UpperCase) : UpperCase[i] = c
    THEN LowerCase[CHOOSE i \in 1..Len(UpperCase) : UpperCase[i] = c]
    ELSE c

lower(s) == [i \in 1..Len(s) |-> LowerChar(s[i])]

\* s[from..to], empty when from > to
Slice(s, from, to) == [i \in 1..(to - from + 1) |-> s[from + i - 1]]

RECURSIVE LStrip(_)
LStrip(s) ==
    IF s # <<>> /\ Head(s) \in Whitespace THEN LStrip(Tail(s)) ELSE s

RECURSIVE RStrip(_)
RStrip(s) ==
    IF s # <<>> /\ s[Len(s)] \in Whitespace
    THEN RStrip(Slice(s, 1, Len(s) - 1))
    ELSE s

strip(s) == LStrip(RStrip(s))

\* Python's None where a text is expected: no text equals it, because every
\* element of a text is a single character
None == <<"None">>

\* Python's None where a non-negative integer is expected
NoneInt == -1

\* `needle in s` for two texts
Contains(s, needle) ==
    \E i \in 1..(Len(s) - Len(needle) + 1) :
        \A j \in 1..Len(needle) : s[i + j - 1] = needle[j]

RECURSIVE Join(_, _)
Join(ss, sep) ==
    IF ss = <<>> THEN <<>>
    ELSE IF Len(ss) = 1 THEN ss[1]
    ELSE ss[1] \o sep \o Join(Tail(ss), sep)

(***************************************************************************)
(* Regular expressions.  An item is one of                                 *)
(*   [t |-> "cls", neg, set, min, max, lazy]  a character class with a     *)
(*        quantifier {min,max} (max = Unbounded for * and +)               *)
(*   [t |-> "str", s]                          a literal text              *)
(*   [t |-> "open", g] / [t |-> "close", g]   the brackets of group g      *)
(*   [t |-> "alt", alts]                       ordered alternatives, each  *)
(*        a sequence of items                                              *)
(*   [t |-> "eos"]                             $                           *)
(* A match is [ok, end, caps]: caps[g] = <<from, to>> (to exclusive), or   *)
(* <<0, 0>> for a group that did not take part.                            *)
(***************************************************************************)
Unbounded == 1000000

Cls(neg, set, min, max, lazy) ==
    [t |-> "cls", neg |-> neg, set |-> set, min |-> min, max |-> max, lazy |-> lazy]

Lit1(c) == Cls(FALSE, {c}, 1, 1, FALSE)

\* a literal text, as one item
Lit(s) == <<[t |-> "str", s |-> s]>>

Open(g) == [t |-> "open", g |-> g]

Close(g) == [t |-> "close", g |-> g]

Alt(alts) == [t |-> "alt", alts |-> alts]

Eos == [t |-> "eos"]

InClass(it, c) == (c \in it.set) # it.neg

NoMatch == [ok |-> FALSE, end |-> 0, caps |-> <<>>]

Least(S) == CHOOSE k \in S : \A j \in S : k <= j

Greatest(S) == CHOOSE k \in S : \A j \in S : k >= j

\* the length of the longest run of characters of the class at pos, at most it.max
RunLen(it, s, pos) ==
    LET stop == IF it.neg /\ it.set = {} THEN Len(s) + 1
                ELSE CHOOSE j \in pos..(Len(s) + 1) :
                        /\ j = Len(s) + 1 \/ ~InClass(it, s[j])
                        /\ \A i \in pos..(j - 1) : InClass(it, s[i])
    IN  IF stop - pos > it.max THEN it.max ELSE stop - pos

StartsWith(s, pos, lit) ==
    /\ pos + Len(lit) - 1 <= Len(s)
    /\ \A j \in 1..Len(lit) : s[pos + j - 1] = lit[j]

\* the positions of lo..hi where the items may match, judged by the first
\* item that must take a character; it spares the matcher hopeless attempts
RECURSIVE Candidates(_, _, _, _)
Candidates(items, s, lo, hi) ==
    IF items = <<>> THEN lo..hi
    ELSE LET it == Head(items)
         IN  CASE it.t \in {"open", "close"} -> Candidates(Tail(items), s, lo, hi)
               [] it.t = "str" /\ it.s # <<>> ->
                    LET c == it.s[1]
                        last == IF hi > Len(s) THEN Len(s) ELSE hi
                    IN  {i \in lo..last : s[i] = c /\ StartsWith(s, i, it.s)}
               [] it.t = "cls" /\ it.min > 0 ->
                    LET last == IF hi > Len(s) THEN Len(s) ELSE hi
                    IN  {i \in lo..last : (s[i] \in it.set) # it.neg}
               [] it.t = "alt" ->
                    UNION {Candidates(it.alts[k] \o Tail(items), s, lo, hi) :
                             k \in 1..Len(it.alts)}
               [] OTHER -> lo..hi

RECURSIVE ReMatch(_, _, _, _)
RECURSIVE ReAlt(_, _, _, _, _, _)
RECURSIVE ReTry(_, _, _, _, _, _)

\* match the items at pos, backtracking in the order Python's re tries: a
\* greedy class takes the most characters the rest can follow, a lazy one
\* the fewest; alternatives are tried left to right
ReMatch(items, s, pos, caps) ==
    IF items = <<>> THEN [ok |-> TRUE, end |-> pos, caps |-> caps]
    ELSE LET it == Head(items)
             rest == Tail(items)
         IN  CASE it.t = "open" ->
                    ReMatch(rest, s, pos, [caps EXCEPT ![it.g] = <<pos, 0>>])
               [] it.t = "close" ->
                    ReMatch(rest, s, pos, [caps EXCEPT ![it.g] = <<caps[it.g][1], pos>>])
               [] it.t = "eos" ->
                    IF pos = Len(s) + 1 \/ (pos = Len(s) /\ s[pos] = "\n")
                    THEN ReMatch(rest, s, pos, caps)
                    ELSE NoMatch
               [] it.t = "str" ->
                    IF StartsWith(s, pos, it.s)
                    THEN ReMatch(rest, s, pos + Len(it.s), caps)
                    ELSE NoMatch
               [] it.t = "alt" -> ReAlt(it.alts, 1, rest, s, pos, caps)
               [] it.t = "cls" ->
                    LET n == RunLen(it, s, pos)
                        ends == Candidates(rest, s, pos + it.min, pos + n)
                    IN  IF n < it.min \/ ends = {} THEN NoMatch
                        ELSE ReTry(ends, it.lazy,
                                   IF it.lazy THEN Least(ends) ELSE Greatest(ends),
                                   rest, s, caps)

\* the class item ends at q, or failing that at the next end in its order
ReTry(ends, lazy, q, rest, s, caps) ==
    LET r == ReMatch(rest, s, q, caps)
        left == IF lazy THEN {e \in ends : e > q} ELSE {e \in ends : e < q}
    IN  IF r.ok THEN r
        ELSE IF left = {} THEN NoMatch
        ELSE ReTry(ends, lazy, IF lazy THEN Least(left) ELSE Greatest(left),
                   rest, s, caps)

ReAlt(alts, k, rest, s, pos, caps) ==
    IF k > Len(alts) THEN NoMatch
    ELSE LET r == ReMatch(alts[k] \o rest, s, pos, caps)
         IN  IF r.ok THEN r ELSE ReAlt(alts, k + 1, rest, s, pos, caps)

NoCaps(ng) == [g \in 1..ng |-> <<0, 0>>]

\* the match at the start i, or failing that at the next start that may match
RECURSIVE ReSearchAt(_, _, _, _, _)
ReSearchAt(starts, i, items, ng, s) ==
    LET r == ReMatch(items, s, i, NoCaps(ng))
        left == {j \in starts : j > i}
    IN  IF r.ok THEN [ok |-> TRUE, start |-> i, end |-> r.end, caps |-> r.caps]
        ELSE IF left = {} THEN [ok |-> FALSE, start |-> 0, end |-> 0, caps |-> <<>>]
        ELSE ReSearchAt(starts, Least(left), items, ng, s)

\* re.search from position `from`: the leftmost match, [ok, start, end, caps]
ReSearchFrom(items, ng, s, from) ==
    LET starts == Candidates(items, s, from, Len(s) + 1)
    IN  IF starts = {} THEN [ok |-> FALSE, start |-> 0, end |-> 0, caps |-> <<>>]
        ELSE ReSearchAt(starts, Least(starts), items, ng, s)

ReSearch(items, ng, s) == ReSearchFrom(items, ng, s, 1)

\* re.finditer: the successive non-overlapping matches, left to right
RECURSIVE ReFindIter(_, _, _, _)
ReFindIter(items, ng, s, from) ==
    LET r == ReSearchFrom(items, ng, s, from)
    IN  IF ~r.ok THEN <<>>
        ELSE <<r>> \o ReFindIter(items, ng, s,
                                 IF r.end = r.start THEN r.end + 1 ELSE r.end)

\* match.group(g): the captured text, None for a group that took no part
Group(s, m, g) ==
    IF m.caps[g][1] = 0 THEN None
    ELSE Slice(s, m.caps[g][1], m.caps[g][2] - 1)

\* int() of a text of decimal digits
RECURSIVE int(_)
int(s) ==
    IF s = <<>> THEN 0
    ELSE 10 * int(Slice(s, 1, Len(s) - 1)) + DigitVal(s[Len(s)])

(***************************************************************************)
(* Calendar: datetime(year, month, day), timedelta(days) and strftime      *)
(***************************************************************************)
MINYEAR == 1

MAXYEAR == 9999

IsLeap(y) == (y % 4 = 0 /\ y % 100 # 0) \/ y % 400 = 0

DaysInMonth(y, m) ==
    IF m = 2 THEN (IF IsLeap(y) THEN 29 ELSE 28)
    ELSE IF m \in {4, 6, 9, 11} THEN 30 ELSE 31

\* datetime(y, m, d) raises ValueError exactly when this is false
ValidDate(y, m, d) ==
    /\ MINYEAR <= y /\ y <= MAXYEAR
    /\ 1 <= m /\ m <= 12
    /\ 1 <= d /\ d <= DaysInMonth(y, m)

Date(y, m, d) == [year |-> y, month |-> m, day |-> d]

NextDay(dt) ==
    IF dt.day < DaysInMonth(dt.year, dt.month) THEN Date(dt.year, dt.month, dt.day + 1)
    ELSE IF dt.month < 12 THEN Date(dt.year, dt.month + 1, 1)
    ELSE Date(dt.year + 1, 1, 1)

PrevDay(dt) ==
    IF dt.day > 1 THEN Date(dt.year, dt.month, dt.day - 1)
    ELSE IF dt.month > 1 THEN Date(dt.year, dt.month - 1, DaysInMonth(dt.year, dt.month - 1))
    ELSE Date(dt.year - 1, 12, 31)

\* dt + timedelta(days = k); the year may leave MINYEAR..MAXYEAR
RECURSIVE AddDays(_, _)
AddDays(dt, k) ==
    IF k = 0 THEN dt
    ELSE IF k > 0 THEN AddDays(NextDay(dt), k - 1)
    ELSE AddDays(PrevDay(dt), k + 1)

\* the decimal digits of n >= 0
RECURSIVE Dec(_)
Dec(n) == IF n < 10 THEN <<Digits[n + 1]>> ELSE Dec(n \div 10) \o <<Digits[(n % 10) + 1]>>

RECURSIVE ZeroPad(_, _)
ZeroPad(s, w) == IF Len(s) >= w THEN s ELSE ZeroPad(<<"0">> \o s, w)

\* dt.strftime('%Y-%m-%d')
strftime(dt) ==
    ZeroPad(Dec(dt.year), 4) \o <<"-">> \o ZeroPad(Dec(dt.month), 2)
        \o <<"-">> \o ZeroPad(Dec(dt.day), 2)

(***************************************************************************)
(* CzechDateParser                                                         *)
(***************************************************************************)
kw_dnes == <<"d", "n", "e", "s">>
kw_zitra == <<"z", i_acute, "t", "r", "a">>
kw_pozitri == <<"p", "o", "z", i_acute, "t", r_caron, i_acute>>
kw_vcera == <<"v", c_caron, "e", "r", "a">>
kw_predevcirem == <<"p", r_caron, "e", "d", "e", "v", c_caron, i_acute, "r", "e", "m">>

\* in the order the dict is iterated
RELATIVE_DATES ==
    << [keyword |-> kw_dnes, days |-> 0],
       [keyword |-> kw_zitra, days |-> 1],
       [keyword |-> kw_pozitri, days |-> 2],
       [keyword |-> kw_vcera, days |-> -1],
       [keyword |-> kw_predevcirem, days |-> -2] >>

w_do == <<"d", "o">>
w_od == <<"o", "d">>
w_konci == <<"k", "o", "n", c_caron, i_acute>>
w_zacina == <<"z", "a", c_caron, i_acute, "n", a_acute>>
w_plati == <<"p", "l", "a", "t", i_acute>>
wd_ct == <<c_caron, "t">>
wd_pa == <<"p", a_acute>>
w_plati_do == w_plati \o <<" ">> \o w_do
w_plati_od == w_plati \o <<" ">> \o w_od

D12 == Cls(FALSE, DigitSet, 1, 2, FALSE)
D4 == Cls(FALSE, DigitSet, 4, 4, FALSE)
WsStar == Cls(FALSE, Whitespace, 0, Unbounded, FALSE)

\* r'(\d{1,2})\.\s*(\d{1,2})\.(?:\s*(\d{4}))?'
date_pattern ==
    <<Open(1), D12, Close(1), Lit1("."), WsStar, Open(2), D12, Close(2), Lit1("."),
      Alt(<< <<WsStar, Open(3), D4, Close(3)>>, <<>> >>)>>

\* a result of parse_date_range: the returned pair, or the exception raised
Returned(start, end) == [start_date |-> start, end_date |-> end, raised |-> "none"]

Raised(exc) == [start_date |-> None, end_date |-> None, raised |-> exc]

\* the index of the first RELATIVE_DATES keyword (in table order) in t, or 0
RECURSIVE FirstKeyword(_, _)
FirstKeyword(t, i) ==
    IF i > Len(RELATIVE_DATES) THEN 0
    ELSE IF Contains(t, RELATIVE_DATES[i].keyword) THEN i
    ELSE FirstKeyword(t, i + 1)

\* the year of one date token: the reference year unless written, advanced
\* by one for a month before a November or December reference month
TokenYear_OffByOne(t, m, cur) ==
    LET year == IF Group(t, m, 3) # None THEN int(Group(t, m, 3)) ELSE cur.year
    IN  IF int(Group(t, m, 2)) <= cur.month /\ cur.month >= 11 THEN year + 1 ELSE year

TokenYear(t, m, cur) ==
    LET year == IF Group(t, m, 3) # None THEN int(Group(t, m, 3)) ELSE cur.year
    IN  IF int(Group(t, m, 2)) < cur.month /\ cur.month >= 11 THEN year + 1 ELSE year

\* the loop over re.finditer(date_pattern, text): the ISO dates of the tokens
\* that datetime() accepts; a ValueError skips the token
RECURSIVE CollectDates_Abort(_, _, _)
CollectDates_Abort(t, ms, cur) ==
    IF ms = <<>> THEN <<>>
    ELSE LET day == int(Group(t, ms[1], 1))
             month == int(Group(t, ms[1], 2))
             year == TokenYear(t, ms[1], cur)
         IN  IF ValidDate(year, month, day)
             THEN <<strftime(Date(year, month, day))>> \o CollectDates_Abort(t, Tail(ms), cur)
             ELSE <<>>

RECURSIVE CollectDates(_, _, _)
CollectDates(t, ms, cur) ==
    IF ms = <<>> THEN <<>>
    ELSE LET day == int(Group(t, ms[1], 1))
             month == int(Group(t, ms[1], 2))
             year == TokenYear(t, ms[1], cur)
         IN  IF ValidDate(year, month, day)
             THEN <<strftime(Date(year, month, day))>> \o CollectDates(t, Tail(ms), cur)
             ELSE CollectDates(t, Tail(ms), cur)

\* the relative branch: the first keyword of the table found in the text
RelativeBranch_KonciOnly(t, k, cur) ==
    LET date == AddDays(cur, RELATIVE_DATES[k].days)
    IN  IF date.year < MINYEAR \/ date.year > MAXYEAR THEN Raised("OverflowError")
        ELSE IF Contains(t, w_konci)
             THEN Returned(None, strftime(date))
             ELSE Returned(strftime(date), None)

RelativeBranch(t, k, cur) ==
    LET date == AddDays(cur, RELATIVE_DATES[k].days)
    IN  IF date.year < MINYEAR \/ date.year > MAXYEAR THEN Raised("OverflowError")
        ELSE IF Contains(t, w_konci) \/ Contains(t, w_do)
             THEN Returned(None, strftime(date))
             ELSE Returned(strftime(date), None)

\* the role of the dates found: none, one (by the markers), or several
AssignRoles_LastTwo(t, dates) ==
    IF Len(dates) = 0 THEN Returned(None, None)
    ELSE IF Len(dates) = 1
    THEN IF Contains(t, w_do) \/ Contains(t, w_konci) \/ Contains(t, w_plati_do)
         THEN Returned(None, dates[1])
         ELSE IF Contains(t, w_od) \/ Contains(t, w_zacina) \/ Contains(t, w_plati_od)
         THEN Returned(dates[1], None)
         ELSE Returned(None, dates[1])
    ELSE Returned(dates[Len(dates) - 1], dates[Len(dates)])

AssignRoles_FromFirst(t, dates) ==
    IF Len(dates) = 0 THEN Returned(None, None)
    ELSE IF Len(dates) = 1
    THEN IF Contains(t, w_od) \/ Contains(t, w_zacina) \/ Contains(t, w_plati_od)
         THEN Returned(dates[1], None)
         ELSE Returned(None, dates[1])
    ELSE Returned(dates[1], dates[Len(dates)])

AssignRoles(t, dates) ==
    IF Len(dates) = 0 THEN Returned(None, None)
    ELSE IF Len(dates) = 1
    THEN IF Contains(t, w_do) \/ Contains(t, w_konci) \/ Contains(t, w_plati_do)
         THEN Returned(None, dates[1])
         ELSE IF Contains(t, w_od) \/ Contains(t, w_zacina) \/ Contains(t, w_plati_od)
         THEN Returned(dates[1], None)
         ELSE Returned(None, dates[1])
    ELSE Returned(dates[1], dates[Len(dates)])

\* CzechDateParser.parse_date_range(text) of a parser whose current_date is cur
parse_date_range_DatesFirst(txt, cur) ==
    IF txt = None \/ txt = <<>> THEN Returned(None, None)
    ELSE LET t == strip(lower(txt))
             k == FirstKeyword(t, 1)
         IN  IF k # 0 /\ ReFindIter(date_pattern, 3, t, 1) = <<>>
             THEN RelativeBranch(t, k, cur)
             ELSE AssignRoles(t, CollectDates(t, ReFindIter(date_pattern, 3, t, 1), cur))

parse_date_range(txt, cur) ==
    IF txt = None \/ txt = <<>> THEN Returned(None, None)
    ELSE LET t == strip(lower(txt))
             k == FirstKeyword(t, 1)
         IN  IF k # 0 THEN RelativeBranch(t, k, cur)
             ELSE AssignRoles(t, CollectDates(t, ReFindIter(date_pattern, 3, t, 1), cur))

(***************************************************************************)
(* float(): a decimal value num / 10^scale, kept in lowest terms so that   *)
(* equal numbers are equal records                                         *)
(***************************************************************************)
RECURSIVE Normalize(_, _)
Normalize(num, scale) ==
    IF scale > 0 /\ num % 10 = 0 THEN Normalize(num \div 10, scale - 1)
    ELSE [num |-> num, scale |-> scale]

\* Python's None where a float is expected
NoneFloat == [num |-> 0 - 1, scale |-> 0]

ValueError == [num |-> 0 - 2, scale |-> 0]

CountOf(s, c) == Cardinality({i \in 1..Len(s) : s[i] = c})

\* str.replace(',', '.')
CommaToDot(s) == [i \in 1..Len(s) |-> IF s[i] = "," THEN "." ELSE s[i]]

\* float(s) for a text of digits and dots: ValueError unless there is at
\* most one dot and at least one digit
float(s) ==
    IF CountOf(s, ".") > 1 \/ \A i \in 1..Len(s) : s[i] = "." THEN ValueError
    ELSE LET digits == SelectSeq(s, LAMBDA c : c # ".")
             dot == IF CountOf(s, ".") = 0 THEN Len(s) + 1
                    ELSE CHOOSE i \in 1..Len(s) : s[i] = "."
         IN  Normalize(int(digits), Len(s) - dot - (IF CountOf(s, ".") = 0 THEN 0 - 1 ELSE 0))

(***************************************************************************)
(* parse_kupi_offers_from_text                                             *)
(***************************************************************************)
AnyLazy == Cls(TRUE, {}, 0, Unbounded, TRUE)
DPlus == Cls(FALSE, DigitSet, 1, Unbounded, FALSE)
NotPV == Cls(TRUE, {"P", "V"}, 1, Unbounded, FALSE)

t_title == <<"A", "k", "t", "u", a_acute, "l", "n", i_acute, " ", "a", "k", c_caron, "n", i_acute, " ", "s", "l", "e", "v", "y">>
t_nejblizsich == <<"n", "e", "j", "b", "l", "i", z_caron, s_caron, i_acute, "c", "h">>
t_pobocek == <<"p", "o", "b", "o", c_caron, "e", "k">>
t_Kc == <<"K", c_caron>>
t_kg == <<"k", "g">>
t_Kc_1_kg == <<"K", c_caron, " ", "/", " ", "1", " ", "k", "g">>
t_1_kg == <<"1", " ", "k", "g">>
t_V == <<"V">>
t_letaku == <<"l", "e", "t", a_acute, "k", "u">>
t_Pridat == <<"P", r_caron, "i", "d", "a", "t">>

\* r'Aktualni akcni slevy ([^\n]+?) \d+\s*kg'
title_pattern ==
    Lit(t_title) \o <<Lit1(" "), Open(1), Cls(TRUE, {"\n"}, 1, Unbounded, TRUE), Close(1),
                     Lit1(" "), DPlus, WsStar>> \o Lit(t_kg)

retailers ==
    << <<"L", "i", "d", "l">>, <<"P", "e", "n", "n", "y", " ", "M", "a", "r", "k", "e", "t">>, <<"K", "a", "u", "f", "l", "a", "n", "d">>, <<"T", "e", "s", "c", "o">>, <<"A", "l", "b", "e", "r", "t">>, <<"B", "I", "L", "L", "A">>, <<"B", "i", "l", "l", "a">> >>

\* rf'{retailer}(\d+)\s*nejblizsich\s*pobocek.*?([\d,]+)\s*Kc\s*/\s*\d+\s*kg.*?
\*    -(\d+)\s*%.*?(plati[^PV]+|zitra[^PV]+|ct[^PV]+|pa[^PV]+)'   with re.DOTALL
offer_pattern(retailer) ==
    Lit(retailer) \o <<Open(1), DPlus, Close(1), WsStar>> \o Lit(t_nejblizsich)
    \o <<WsStar>> \o Lit(t_pobocek)
    \o <<AnyLazy, Open(2), Cls(FALSE, DigitSet \cup {","}, 1, Unbounded, FALSE), Close(2),
         WsStar>> \o Lit(t_Kc) \o <<WsStar, Lit1("/"), WsStar, DPlus, WsStar>> \o Lit(t_kg)
    \o <<AnyLazy, Lit1(en_dash), Open(3), DPlus, Close(3), WsStar, Lit1("%"), AnyLazy,
         Open(4),
         Alt(<< Lit(w_plati) \o <<NotPV>>, Lit(kw_zitra) \o <<NotPV>>,
                Lit(wd_ct) \o <<NotPV>>, Lit(wd_pa) \o <<NotPV>> >>),
         Close(4)>>

\* re.sub(pattern, '', s): s without the matches of the pattern
RECURSIVE RemoveMatches(_, _, _)
RemoveMatches(s, ms, from) ==
    IF ms = <<>> THEN Slice(s, from, Len(s))
    ELSE Slice(s, from, ms[1].start - 1) \o RemoveMatches(s, Tail(ms), ms[1].end)

ReSubEmpty(items, s) == RemoveMatches(s, ReFindIter(items, 0, s, 1), 1)

\* . without re.DOTALL
DotStar == Cls(TRUE, {"\n"}, 0, Unbounded, FALSE)

validity_limit == 50

\* the cleaning of the captured validity phrase
\* s[:n]
Prefix(s, n) == Slice(s, 1, IF Len(s) < n THEN Len(s) ELSE n)

CleanValidity(validity_raw) ==
    Prefix(strip(ReSubEmpty(Lit(t_Pridat) \o <<DotStar>>,
                            strip(ReSubEmpty(<<Lit1("V"), WsStar>> \o Lit(t_letaku)
                                             \o <<DotStar>>,
                                             validity_raw)))),
           validity_limit)

\* a raw offer: the keys process_offer reads and the keys the text parser
\* writes; a key a producer does not write is None
RawOffer(name, price_text, discount_text, validity_text, store_count_text) ==
    [ retailer_name |-> name, retailer_url |-> None,
      price_text |-> price_text, discount_text |-> discount_text,
      validity_text |-> validity_text, flyer_url |-> None,
      store_locations_url |-> None, store_count_text |-> store_count_text,
      full_text |-> None,
      store_count |-> NoneInt, price_value |-> NoneFloat, price_unit |-> None,
      discount_percentage |-> NoneInt ]

\* the offer dict built from one match; price_value may be ValueError
MatchOffer(retailer, s, m) ==
    LET price == Group(s, m, 2)
    IN  [ RawOffer(retailer, price \o <<" ">> \o t_Kc_1_kg, None,
                   CleanValidity(Group(s, m, 4)), None)
          EXCEPT !.store_count = int(Group(s, m, 1)),
                 !.price_value = float(CommaToDot(price)),
                 !.price_unit = t_1_kg,
                 !.discount_percentage = int(Group(s, m, 3)) ]

\* the offers of one retailer's matches, in text order
MatchOffers(retailer, s, ms) == [i \in 1..Len(ms) |-> MatchOffer(retailer, s, ms[i])]

\* the offers of all matches, retailer by retailer, each in text order
RECURSIVE AllMatches(_, _)
AllMatches(s, r) ==
    IF r > Len(retailers) THEN <<>>
    ELSE MatchOffers(retailers[r], s, ReFindIter(offer_pattern(retailers[r]), 4, s, 1))
         \o AllMatches(s, r + 1)

is_dup_NameOnly(offers, offer) ==
    \E i \in 1..Len(offers) : offers[i].retailer_name = offer.retailer_name

is_dup(offers, offer) ==
    \E i \in 1..Len(offers) :
        /\ offers[i].retailer_name = offer.retailer_name
        /\ offers[i].price_value = offer.price_value

\* the loop body's effect on result["offers"], match after match; the float()
\* of a match raises before the offer is built
RECURSIVE AppendOffers(_, _)
AppendOffers(offers, matches) ==
    IF matches = <<>> THEN [offers |-> offers, raised |-> "none"]
    ELSE IF matches[1].price_value = ValueError
         THEN [offers |-> offers, raised |-> "ValueError"]
    ELSE AppendOffers(IF is_dup(offers, matches[1]) THEN offers
                      ELSE Append(offers, matches[1]),
                      Tail(matches))

\* result["product_name"] after the title search
TitleGroup(s, title_match) ==
    IF title_match.ok THEN strip(Group(s, title_match, 1)) ELSE None

ProductName(s) == TitleGroup(s, ReSearch(title_pattern, 1, s))

\* the dict returned once the loop over the matches has ended, or the
\* exception the loop let out
Result(s, r) ==
    IF r.raised # "none"
    THEN [product_name |-> None, offers |-> <<>>, raised |-> r.raised]
    ELSE [product_name |-> ProductName(s), offers |-> r.offers, raised |-> "none"]

\* parse_kupi_offers_from_text(text)
parse_kupi_offers_from_text(s) == Result(s, AppendOffers(<<>>, AllMatches(s, 1)))

(***************************************************************************)
(* DataProcessor.  An Optional dict that is None is the record NoDict; a   *)
(* missing key and a key holding None read the same through dict.get in    *)
(* every place the processor reads one, and both are None here.            *)
(***************************************************************************)
NoDict == [none |-> TRUE]

\* bool(x) of an Optional[str]
Truthy(s) == s # None /\ s # <<>>

\* x.strip() if x else None
StripOrNone(s) == IF Truthy(s) THEN strip(s) ELSE None

t_CZK == <<"C", "Z", "K">>

\* r'(\d+[,.]?\d*)'
price_pattern ==
    <<Open(1), DPlus, Cls(FALSE, {",", "."}, 0, 1, FALSE),
      Cls(FALSE, DigitSet, 0, Unbounded, FALSE), Close(1)>>

\* r'/\s*(.+?)(?:\s|$)'
unit_pattern ==
    <<Lit1("/"), WsStar, Open(1), Cls(TRUE, {"\n"}, 1, Unbounded, TRUE), Close(1),
      Alt(<< <<Cls(FALSE, Whitespace, 1, 1, FALSE)>>, <<Eos>> >>)>>

discount_pattern_NoSpace == <<Open(1), DPlus, Close(1), Lit1("%")>>

\* r'(\d+)\s*%'
discount_pattern == <<Open(1), DPlus, Close(1), WsStar, Lit1("%")>>

\* r'(\d+)'
count_pattern == <<Open(1), DPlus, Close(1)>>

\* float(value_str), None for the ValueError the method catches
PriceValue(price_text, price_match) ==
    IF ~price_match.ok THEN NoneFloat
    ELSE IF float(CommaToDot(Group(price_text, price_match, 1))) = ValueError THEN NoneFloat
    ELSE float(CommaToDot(Group(price_text, price_match, 1)))

PriceUnit(price_text, unit_match) ==
    IF unit_match.ok THEN strip(Group(price_text, unit_match, 1)) ELSE None

\* DataProcessor._parse_price
_parse_price(price_text) ==
    IF ~Truthy(price_text) THEN NoDict
    ELSE [ text |-> price_text,
           value |-> PriceValue(price_text, ReSearch(price_pattern, 1, price_text)),
           currency |-> IF Contains(price_text, t_Kc) \/ Contains(price_text, t_CZK)
                        THEN t_CZK ELSE None,
           unit |-> PriceUnit(price_text, ReSearch(unit_pattern, 1, price_text)) ]

FirstInt_Zero(s, match) == IF match.ok THEN int(Group(s, match, 1)) ELSE 0

FirstInt(s, match) == IF match.ok THEN int(Group(s, match, 1)) ELSE NoneInt

\* DataProcessor._parse_discount
_parse_discount(discount_text) ==
    IF ~Truthy(discount_text) THEN NoDict
    ELSE [ text |-> discount_text,
           percentage |-> FirstInt(discount_text, ReSearch(discount_pattern, 1, discount_text)) ]

\* DataProcessor._parse_store_count
_parse_store_count(store_count_text) ==
    IF ~Truthy(store_count_text) THEN NoneInt
    ELSE FirstInt(store_count_text, ReSearch(count_pattern, 1, store_count_text))

ValidityDict(txt, range) ==
    [start_date |-> range.start_date, end_date |-> range.end_date,
     text |-> StripOrNone(txt), raised |-> range.raised]

\* CzechDateParser.parse_validity_text of a parser whose current_date is cur
parse_validity_text(txt, cur) == ValidityDict(txt, parse_date_range(txt, cur))

\* DataProcessor.process_offer of a processor whose date parser has current_date cur
process_offer(offer, cur) ==
    [ retailer |-> [name |-> StripOrNone(offer.retailer_name), url |-> offer.retailer_url],
      pricing |-> _parse_price(offer.price_text),
      discount |-> _parse_discount(offer.discount_text),
      validity |-> parse_validity_text(offer.validity_text, cur),
      flyer_url |-> offer.flyer_url,
      store_locations |-> [url |-> offer.store_locations_url,
                           count |-> _parse_store_count(offer.store_count_text)],
      raw_text |-> StripOrNone(offer.full_text) ]

\* an extracted-data dict
Extracted(product_name, category, regular_price_text, offers) ==
    [product_name |-> product_name, category |-> category,
     regular_price_text |-> regular_price_text, offers |-> offers]

\* crawl_result["extracted_data"]: None, a dict (items holds it) or a list
ExtractedData(kind, items) == [kind |-> kind, items |-> items]

\* the result_data dict crawl_url returns
CrawlResult(success, url, extracted_data, raw_markdown, error) ==
    [success |-> success, url |-> url, extracted_data |-> extracted_data,
     raw_markdown |-> raw_markdown, error |-> error]

\* what process_crawl_result gave: status "none" for a returned None,
\* "ok" for a returned dict, else the name of the exception raised
Outcome(status, product, offers, metadata) ==
    [status |-> status, product |-> product, offers |-> offers, metadata |-> metadata]

\* if processed_offer["retailer"]["name"] or processed_offer["pricing"]
Kept(processed_offer) ==
    Truthy(processed_offer.retailer.name) \/ processed_offer.pricing # NoDict

\* the loop over the offers: processed["offers"]
RECURSIVE ProcessOffers(_, _)
ProcessOffers(offers, cur) ==
    IF offers = <<>> THEN <<>>
    ELSE SelectSeq(<<process_offer(Head(offers), cur)>>, Kept)
         \o ProcessOffers(Tail(offers), cur)

\* the exception the date parser let out of the loop, "ok" if none did
LoopRaised(processed_offers) ==
    IF \E i \in 1..Len(processed_offers) : processed_offers[i].validity.raised # "none"
    THEN "OverflowError" ELSE "ok"

Assembled(extracted, url, now, processed_offers) ==
    Outcome(LoopRaised(processed_offers),
            [name |-> StripOrNone(extracted.product_name),
             category |-> extracted.category,
             regular_price |-> _parse_price(extracted.regular_price_text)],
            processed_offers,
            [url |-> url, crawled_at |-> now])

\* the second half of process_crawl_result, from `processed = {`
Assemble(extracted, url, cur, now) ==
    Assembled(extracted, url, now, ProcessOffers(extracted.offers, cur))

\* the fake extracted structure made of the text parser's result
FromParsed(extracted, parsed_text) ==
    IF parsed_text.offers = <<>> THEN extracted
    ELSE Extracted(parsed_text.product_name, extracted.category,
                   extracted.regular_price_text, parsed_text.offers)

\* the fallback to text parsing, taken when the extraction found no offers
Fallback(extracted, url, cur, now, parsed_text) ==
    IF parsed_text.raised # "none"
    THEN Outcome(parsed_text.raised, NoDict, <<>>, NoDict)
    ELSE Assemble(FromParsed(extracted, parsed_text), url, cur, now)

WithOffers(extracted, url, cur, now) ==
    IF extracted.offers = <<>> /\ Truthy(extracted.regular_price_text)
    THEN Fallback(extracted, url, cur, now,
                  parse_kupi_offers_from_text(extracted.regular_price_text))
    ELSE Assemble(extracted, url, cur, now)

\* DataProcessor.process_crawl_result of a processor whose date parser has
\* current_date cur, called when the clock shows now
process_crawl_result(result, cur, now) ==
    IF ~result.success \/ result.extracted_data.items = <<>>
    THEN Outcome("none", NoDict, <<>>, NoDict)
    ELSE WithOffers(result.extracted_data.items[1], result.url, cur, now)

(***************************************************************************)
(* The validity texts the resolver is run on.  A text is pieces joined by  *)
(* single spaces; a piece is a word or a day.month[.year] token, with an   *)
(* optional weekday abbreviation in front.                                 *)
(***************************************************************************)
MaxPieces == 3

Word(w) == [k |-> "word", w |-> w, d |-> 0, m |-> 0, y |-> 0, sp |-> FALSE]

\* y = 0: no year written; sp: a space after each dot, as in "18. 12."
Token(wk, d, m, y, sp) == [k |-> "date", w |-> wk, d |-> d, m |-> m, y |-> y, sp |-> sp]

Render(p) ==
    IF p.k = "word" THEN p.w
    ELSE LET gap == IF p.sp THEN <<" ">> ELSE <<>>
         IN  (IF p.w = <<>> THEN <<>> ELSE p.w \o <<" ">>)
             \o Dec(p.d) \o <<".">> \o gap \o Dec(p.m) \o <<".">>
             \o (IF p.y = 0 THEN <<>> ELSE gap \o Dec(p.y))

TextOf(ps) == Join([i \in 1..Len(ps) |-> Render(ps[i])], <<" ">>)

KeywordPieces == {Word(RELATIVE_DATES[i].keyword) : i \in 1..Len(RELATIVE_DATES)}

EndMarkers == {Word(w_do), Word(w_konci)}

StartMarkers == {Word(w_od), Word(w_zacina)}

Separators == {Word(<<en_dash>>), Word(<<"-">>)}

\* the tokens of the role-assignment texts: two valid ones, one with month 13,
\* one with a written year
DatePieces ==
    { Token(wd_ct, 18, 12, 0, TRUE), Token(wd_pa, 19, 12, 0, TRUE),
      Token(<<>>, 1, 13, 0, TRUE), Token(<<>>, 5, 1, 2026, TRUE) }

\* texts without a relative keyword
AbsolutePieces == DatePieces \cup EndMarkers \cup StartMarkers \cup {Word(<<en_dash>>)}

\* what accompanies a relative keyword
RelativePieces ==
    EndMarkers \cup StartMarkers \cup {Token(<<>>, 13, 12, 0, FALSE), Word(kw_zitra)}

SeqsUpTo(S, n) == UNION {[1..k -> S] : k \in 0..n}

\* p put after the first i elements of ps
InsertAt(ps, i, p) == Slice(ps, 1, i) \o <<p>> \o Slice(ps, i + 1, Len(ps))

AbsoluteDates == {Date(2025, 12, 10), Date(2024, 3, 1)}

RelativeRefDates == {Date(2025, 12, 10), Date(2025, 12, 31), Date(2024, 3, 1)}

\* one token under every reference month, for the year a token resolves to
YearTokens ==
    {Token(<<>>, d, m, y, TRUE) : d \in {1, 29, 31}, m \in {1, 2, 10, 11, 12, 13},
                                  y \in {0, 2026}}

YearDates == {Date(y, m, 15) : y \in {2025, 2027}, m \in 1..12}

\* "ct 18. 12. - pa 19. 12." on 2025-12-01 and "13.12. - 17.12." in 2025
ExampleInputs ==
    { << <<Token(wd_ct, 18, 12, 0, TRUE), Word(<<en_dash>>), Token(wd_pa, 19, 12, 0, TRUE)>>,
         Date(2025, 12, 1) >>,
      << <<Token(<<>>, 13, 12, 0, FALSE), Word(<<"-">>), Token(<<>>, 17, 12, 0, FALSE)>>,
         Date(2025, 6, 15) >> }

\* ranges of two yearless tokens around the turn of the year, seen in
\* October, November and December
RangeTokens ==
    { Token(<<>>, 28, 11, 0, TRUE), Token(<<>>, 5, 12, 0, TRUE),
      Token(<<>>, 30, 12, 0, TRUE), Token(<<>>, 3, 1, 0, TRUE) }

RangeDates == {Date(2025, 10, 5), Date(2025, 11, 20), Date(2025, 12, 1)}

NotCalled == Raised("not called")

NotParsed == [product_name |-> None, offers |-> <<>>, raised |-> "not called"]

ResolverIdle ==
    /\ text = <<>> /\ pieces = <<>> /\ current_date = Date(2025, 12, 10)
    /\ date_range = NotCalled

ParserIdle == raw_text = <<>> /\ blocks = <<>> /\ matched = <<>> /\ parsed = NotParsed

\* the two DataProcessor objects a run may build
Processors == {1, 2}

\* a DataProcessor not built yet has no date parser
NoParser == [year |-> 0, month |-> 0, day |-> 0]

NotProcessed == Outcome("not called", NoDict, <<>>, NoDict)

NoCrawlResult == CrawlResult(FALSE, None, ExtractedData("none", <<>>), None, None)

Epoch == Date(2025, 12, 10)

ProcessorIdle ==
    /\ clock = Epoch
    /\ date_parser = [p \in Processors |-> NoParser]
    /\ crawl_result = NoCrawlResult
    /\ processed = [p \in Processors |-> NotProcessed]

\* what the three field parsers gave; `called` names the one called
FieldResult(called, pricing, discount, count) ==
    [called |-> called, pricing |-> pricing, discount |-> discount, count |-> count]

NoFieldResult == FieldResult("not called", NoDict, NoDict, NoneInt)

FieldIdle ==
    field_text = <<>> /\ field_parts = [kind |-> "none"] /\ field_result = NoFieldResult

\* no batch method called
NoCall ==
    [method |-> "none", urls |-> <<>>, schema_mode |-> "detailed",
     max_concurrent |-> 0, delay_between |-> FALSE]

NoSemaphore == [value |-> 0, waiters |-> <<>>]

CrawlerIdle ==
    /\ call = NoCall
    /\ environ = [LLM_API_KEY |-> FALSE]
    /\ batch_pc = "idle"
    /\ loop_i = 0
    /\ task_pc = <<>>
    /\ task_result = <<>>
    /\ semaphore = NoSemaphore
    /\ results = <<>>
    /\ trace = <<>>

NoParts == [segs |-> <<>>, slash |-> FALSE, query |-> <<"None">>, fragment |-> <<"None">>]

SlugIdle == slug_url = <<>> /\ slug_parts = NoParts /\ slug = <<"None">>

NotLoaded == <<<<"not called">>>>

LoadIdle == file_text = <<"None">> /\ file_lines = <<>> /\ loaded = NotLoaded

UtilIdle == SlugIdle /\ LoadIdle

OthersIdle == FieldIdle /\ CrawlerIdle /\ UtilIdle

InitResolve ==
    /\ \/ \E ps \in SeqsUpTo(AbsolutePieces, MaxPieces), cur \in AbsoluteDates :
             pieces = ps /\ current_date = cur
       \/ \E ps \in SeqsUpTo(RelativePieces, MaxPieces - 1), kw \in KeywordPieces,
             cur \in RelativeRefDates :
             \E i \in 0..Len(ps) : pieces = InsertAt(ps, i, kw) /\ current_date = cur
       \/ \E p \in YearTokens, cur \in YearDates :
             pieces = <<p>> /\ current_date = cur
       \/ \E in \in ExampleInputs :
             pieces = in[1] /\ current_date = in[2]
       \/ \E a \in RangeTokens, b \in RangeTokens, cur \in RangeDates :
             pieces = <<a, Word(<<en_dash>>), b>> /\ current_date = cur
    /\ text = TextOf(pieces)
    /\ date_range = NotCalled
    /\ pc = "ready"
    /\ ParserIdle
    /\ ProcessorIdle
    /\ OthersIdle

\* one call of parse_date_range(text)
ParseDateRange ==
    /\ pc = "ready"
    /\ date_range' = parse_date_range(text, current_date)
    /\ pc' = "done"
    /\ UNCHANGED <<text, pieces, current_date, parserVars, processorVars, otherVars>>

NextResolve == ParseDateRange

SpecResolve == InitResolve /\ [][NextResolve]_vars

(***************************************************************************)
(* The page texts the fallback parser is run on: an optional title line,   *)
(* then retailer blocks joined by single spaces.  A block names a          *)
(* retailer, its store count, a price fragment (or none), a discount, a    *)
(* validity phrase and what follows it.                                    *)
(***************************************************************************)
MaxBlocks == 2

t_Banany == <<"B", "a", "n", a_acute, "n", "y">>
t_title_line == t_title \o <<" ">> \o t_Banany \o <<" ", "1", " ", "k", "g", "\n">>
t_validity == <<"p", "l", "a", "t", i_acute, " ", "d", "o", " ", "1", "7", ".", " ", "1", "2", ".">>
t_V_letaku == <<"V", " ", "l", "e", "t", a_acute, "k", "u">>

\* price: the fragment before "Kc", None for a block without a price;
\* value: the number the fragment stands for
Block(r, count, price, value, discount, tail) ==
    [r |-> r, count |-> count, price |-> price, value |-> value,
     discount |-> discount, tail |-> tail]

RenderBlock(b) ==
    retailers[b.r] \o Dec(b.count) \o <<" ">> \o t_nejblizsich \o <<" ">> \o t_pobocek
    \o (IF b.price = None THEN <<>> ELSE <<" ">> \o b.price \o <<" ">> \o t_Kc_1_kg)
    \o <<" ", en_dash>> \o Dec(b.discount) \o <<" ", "%", " ">> \o t_validity \o b.tail

PageText(title, bs) ==
    title \o Join([i \in 1..Len(bs) |-> RenderBlock(bs[i])], <<" ">>)

p_17_90 == <<"1", "7", ",", "9", "0">>
p_17_9 == <<"1", "7", ",", "9">>
p_19_90 == <<"1", "9", ",", "9", "0">>
p_1_299_90 == <<"1", ",", "2", "9", "9", ",", "9", "0">>

StoreCount(r) == IF r = 1 THEN 81 ELSE 12

\* Lidl and Tesco blocks.  17,90 and 17,9 are the same number, 19,90 is
\* another; 1,299,90 is no number; a block may show no price; the text
\* "V letaku" may follow
Blocks ==
    { Block(r, StoreCount(r), pv[1], pv[2], pv[3], tail) :
        r \in {1, 4},
        pv \in {<<p_17_90, Normalize(1790, 2), 55>>, <<p_17_9, Normalize(179, 1), 30>>},
        tail \in {<<>>, <<" ">> \o t_V_letaku} }
    \cup { Block(1, StoreCount(1), p_19_90, Normalize(1990, 2), 10, <<" ">> \o t_V_letaku) }
    \cup { Block(r, StoreCount(r), p_1_299_90, ValueError, 40, <<>>) : r \in {1, 4} }
    \cup { Block(r, StoreCount(r), None, NoneFloat, 20, <<" ">> \o t_V_letaku) : r \in {1, 4} }

InitParse ==
    /\ \E bs \in SeqsUpTo(Blocks, MaxBlocks), title \in {<<>>, t_title_line} :
          blocks = bs /\ raw_text = PageText(title, bs)
    /\ matched = <<>>
    /\ parsed = NotParsed
    /\ pc = "ready"
    /\ ResolverIdle
    /\ ProcessorIdle
    /\ OthersIdle

\* one call of parse_kupi_offers_from_text(raw_text)
ParseKupiOffersFromText ==
    /\ pc = "ready"
    /\ matched' = AllMatches(raw_text, 1)
    /\ parsed' = Result(raw_text, AppendOffers(<<>>, matched'))
    /\ pc' = "done"
    /\ UNCHANGED <<raw_text, blocks, resolverVars, processorVars, otherVars>>

NextParse == ParseKupiOffersFromText

SpecParse == InitParse /\ [][NextParse]_vars

(***************************************************************************)
(* The crawl results the processor is run on: a structured payload with    *)
(* up to MaxOffers raw offers, or one of the payloads that take the other  *)
(* paths of process_crawl_result.                                          *)
(***************************************************************************)
MaxOffers == 2
MaxTicks == 2

t_price_kg == p_17_90 \o <<" ">> \o t_Kc_1_kg
t_price_kg_short == p_17_9 \o <<" ">> \o t_Kc_1_kg
t_price_ks == <<"1", "9", ",", "9", "0", " ", "K", c_caron, " ", "/", " ", "k", "s">>
t_price_plain == <<"4", "0", ",", "7", "6", " ", "K", c_caron>>
t_akce == <<"a", "k", "c", "e">>
t_minus_55 == <<en_dash, "5", "5", " ", "%">>
t_30 == <<"3", "0", "%">>
t_sleva == <<"s", "l", "e", "v", "a">>
t_zitra_konci == kw_zitra \o <<" ">> \o w_konci
t_81_pobocek == <<"8", "1", " ">> \o t_nejblizsich \o <<" ">> \o t_pobocek
t_pobocky == <<"p", "o", "b", "o", c_caron, "k", "y">>
t_Lidl_spaced == <<" ">> \o retailers[1] \o <<" ">>
t_Banany_spaced == <<" ">> \o t_Banany \o <<" ">>
t_url == <<"h", "t", "t", "p", "s", ":", "/", "/", "k", "u", "p", "i", ".", "c", "z", "/", "s", "l", "e", "v", "a", "/", "b", "a", "n", "a", "n", "y">>

\* raw offers as the extraction schema yields them: complete ones, one
\* that repeats another's retailer and price, ones without a name, without
\* a price, or with texts that hold no number
RawOffers ==
    { RawOffer(t_Lidl_spaced, t_price_kg, t_minus_55, t_validity, t_81_pobocek),
      RawOffer(retailers[4], t_price_kg_short, t_30, t_zitra_konci, None),
      RawOffer(retailers[1], t_price_kg_short, None, None, None),
      RawOffer(retailers[1], t_akce, t_sleva, None, t_pobocky),
      RawOffer(<<" ">>, t_akce, None, None, None),
      RawOffer(None, t_price_ks, None, t_zitra_konci, None),
      RawOffer(None, None, t_30, None, None),
      RawOffer(<<>>, <<>>, None, None, None) }

LidlBlock(price, value) == Block(1, StoreCount(1), price, value, 55, <<" ">> \o t_V_letaku)

\* payloads without offers: nothing to fall back on, a text with no offer
\* in it, a page with and without its title line, a page whose price is
\* no number
FallbackTexts ==
    { None, t_price_plain,
      PageText(t_title_line, <<LidlBlock(p_17_90, Normalize(1790, 2))>>),
      PageText(<<>>, <<LidlBlock(p_17_90, Normalize(1790, 2))>>),
      PageText(<<>>, <<LidlBlock(p_1_299_90, ValueError)>>) }

\* the page as raw text
t_page == PageText(t_title_line, <<LidlBlock(p_17_90, Normalize(1790, 2))>>)

t_timeout == <<"t", "i", "m", "e", "o", "u", "t">>

StructuredResults ==
    { CrawlResult(TRUE, t_url,
                  ExtractedData(kind, <<Extracted(t_Banany_spaced, <<>>, t_price_plain, os)>>),
                  t_page, None) :
        kind \in {"dict", "list"}, os \in SeqsUpTo(RawOffers, MaxOffers) \ {<<>>} }

OtherResults ==
    { CrawlResult(TRUE, t_url,
                  ExtractedData("dict", <<Extracted(name, <<>>, txt, <<>>)>>), raw, None) :
        name \in {None, t_Banany_spaced}, txt \in FallbackTexts, raw \in {None, t_page} }
    \cup { CrawlResult(ok, t_url, ExtractedData(kind, <<>>), raw,
                       IF ok THEN None ELSE t_timeout) :
             ok \in BOOLEAN, kind \in {"none", "list"}, raw \in {None, t_page} }
    \cup { CrawlResult(FALSE, t_url,
                       ExtractedData("dict", <<Extracted(None, <<>>, None, <<o>>)>>),
                       None, t_timeout) :
             o \in RawOffers }

\* results whose validity texts the clock may or may not matter to
ClockResults ==
    { CrawlResult(TRUE, t_url,
                  ExtractedData("dict", <<Extracted(t_Banany_spaced, <<>>, None, <<o>>)>>),
                  t_page, None) :
        o \in RawOffers }

\* DataProcessor(): its date parser is built with no date and takes the
\* clock's
NewDataProcessor(p) ==
    /\ date_parser[p] = NoParser
    /\ date_parser' = [date_parser EXCEPT ![p] = clock]
    /\ UNCHANGED <<clock, crawl_result, processed, resolverVars, parserVars, otherVars, pc>>

\* processor p's call of process_crawl_result(crawl_result)
ProcessCrawlResult(p) ==
    /\ date_parser[p] # NoParser
    /\ processed[p] = NotProcessed
    /\ processed' = [processed EXCEPT
                       ![p] = process_crawl_result(crawl_result, date_parser[p], clock)]
    /\ UNCHANGED <<clock, date_parser, crawl_result, resolverVars, parserVars, otherVars, pc>>

\* midnight passes
Tick ==
    /\ \E k \in 0..(MaxTicks - 1) : clock = AddDays(Epoch, k)
    /\ clock' = NextDay(clock)
    /\ UNCHANGED <<date_parser, crawl_result, processed, resolverVars, parserVars, otherVars, pc>>

ProcessorsNotBuilt ==
    /\ date_parser = [p \in Processors |-> NoParser]
    /\ processed = [p \in Processors |-> NotProcessed]

\* one processor and one crawl result
InitProcess ==
    /\ crawl_result \in StructuredResults \cup OtherResults
    /\ clock = Epoch
    /\ ProcessorsNotBuilt
    /\ pc = "ready"
    /\ ResolverIdle
    /\ ParserIdle
    /\ OthersIdle

NextProcess == NewDataProcessor(1) \/ ProcessCrawlResult(1)

SpecProcess == InitProcess /\ [][NextProcess]_vars

\* two processors, built and run at any time, on the same crawl result
InitClock ==
    /\ crawl_result \in ClockResults
    /\ clock = Epoch
    /\ ProcessorsNotBuilt
    /\ pc = "ready"
    /\ ResolverIdle
    /\ ParserIdle
    /\ OthersIdle

NextClock ==
    \/ \E p \in Processors : NewDataProcessor(p)
    \/ \E p \in Processors : ProcessCrawlResult(p)
    \/ Tick

SpecClock == InitClock /\ [][NextClock]_vars

(***************************************************************************)
(* The texts the three field parsers are run on.  A price text is a whole  *)
(* part, a separator and a fraction, a currency and a unit of up to        *)
(* MaxUnitWords words after " / "; a discount text is a sign, an integer,  *)
(* optional space and "%"; a count text is an integer before a word; a     *)
(* plain text holds no number of the kind looked for.                      *)
(***************************************************************************)
MaxUnitWords == 2

UnitWords == {<<"1">>, <<"k", "g">>, <<"k", "s">>}

PriceParts(whole, sep, frac, currency, unit) ==
    [kind |-> "price", whole |-> whole, sep |-> sep, frac |-> frac,
     currency |-> currency, unit |-> unit]

DiscountParts(sign, n, space, rest) ==
    [kind |-> "discount", sign |-> sign, n |-> n, space |-> space, rest |-> rest]

CountParts(n, rest) == [kind |-> "count", n |-> n, rest |-> rest]

PlainParts(txt) == [kind |-> "plain", txt |-> txt]

FieldText(parts) ==
    CASE parts.kind = "price" ->
           parts.whole \o parts.sep \o parts.frac
           \o (IF parts.currency = <<>> THEN <<>> ELSE <<" ">> \o parts.currency)
           \o (IF parts.unit = <<>> THEN <<>> ELSE <<" ", "/", " ">> \o Join(parts.unit, <<" ">>))
      [] parts.kind = "discount" ->
           parts.sign \o parts.n \o parts.space \o <<"%">> \o parts.rest
      [] parts.kind = "count" -> parts.n \o parts.rest
      [] OTHER -> parts.txt

PriceInputs ==
    { PriceParts(n[1], n[2], n[3], currency, unit) :
        n \in { << <<"1", "7">>, <<",">>, <<"9", "0">> >>, << <<"1", "7">>, <<",">>, <<"9">> >>,
                << <<"0">>, <<".">>, <<"5">> >>, << <<"4", "0">>, <<>>, <<>> >>,
                << <<"4", "0">>, <<",">>, <<>> >> },
        currency \in {t_Kc, t_CZK, <<>>},
        unit \in SeqsUpTo(UnitWords, MaxUnitWords) }

DiscountInputs ==
    { DiscountParts(sign, n, space, rest) :
        sign \in {<<>>, <<"-">>, <<en_dash>>, t_sleva \o <<" ">>},
        n \in {<<"0">>, <<"5", "5">>, <<"1", "0", "0">>, <<"0", "5">>},
        space \in {<<>>, <<" ">>, <<" ", " ">>},
        rest \in {<<>>, <<" ">> \o t_akce} }

CountInputs ==
    { CountParts(n, rest) :
        n \in {<<"8", "1">>, <<"0">>, <<"1", "2", "3">>},
        rest \in {<<>>, <<" ">> \o t_nejblizsich \o <<" ">> \o t_pobocek} }

PlainInputs ==
    { PlainParts(txt) :
        txt \in {None, <<>>, <<" ">>, t_akce, t_sleva \o <<" ", "%">>, t_pobocky,
                 t_Kc \o <<" ", "/", " ", "k", "s">>, <<",">>, <<"5", "5">>} }

InitFields ==
    /\ field_parts \in PriceInputs \cup DiscountInputs \cup CountInputs \cup PlainInputs
    /\ field_text = FieldText(field_parts)
    /\ field_result = NoFieldResult
    /\ pc = "ready"
    /\ ResolverIdle
    /\ ParserIdle
    /\ ProcessorIdle
    /\ CrawlerIdle
    /\ UtilIdle

\* a call of _parse_price(field_text)
ParsePrice ==
    /\ field_result = NoFieldResult
    /\ field_result' = FieldResult("_parse_price", _parse_price(field_text), NoDict, NoneInt)
    /\ UNCHANGED <<field_text, field_parts, resolverVars, parserVars, processorVars, crawlerVars, utilVars, pc>>

\* a call of _parse_discount(field_text)
ParseDiscount ==
    /\ field_result = NoFieldResult
    /\ field_result' = FieldResult("_parse_discount", NoDict, _parse_discount(field_text), NoneInt)
    /\ UNCHANGED <<field_text, field_parts, resolverVars, parserVars, processorVars, crawlerVars, utilVars, pc>>

\* a call of _parse_store_count(field_text)
ParseStoreCount ==
    /\ field_result = NoFieldResult
    /\ field_result' = FieldResult("_parse_store_count", NoDict, NoDict,
                                   _parse_store_count(field_text))
    /\ UNCHANGED <<field_text, field_parts, resolverVars, parserVars, processorVars, crawlerVars, utilVars, pc>>

NextFields == ParsePrice \/ ParseDiscount \/ ParseStoreCount

SpecFields == InitFields /\ [][NextFields]_vars

(***************************************************************************)
(* KupiCrawler: crawl_url, crawl_urls and crawl_urls_parallel.  A          *)
(* coroutine runs from one await to the next in one step.                  *)
(***************************************************************************)
MaxUrls == 3

MaxConcurrent == 2

SchemaModes == {"detailed", "simple", "llm"}

\* the i-th URL of a batch
Url(i) == t_url \o <<"-", Digits[i + 1]>>

Urls(n) == [i \in 1..n |-> Url(i)]

\* choosing the extraction schema: get_kupi_schema_llm raises RuntimeError
\* when LLM_API_KEY is not set, the two CSS schemas are built from literals
StrategyRaises(schema_mode, env) == schema_mode = "llm" /\ ~env.LLM_API_KEY

t_net_error == <<"n", "e", "t", ":", ":", "E", "R", "R">>

\* what starting the browser and arun can come to, as far as crawl_url
\* tells the outcomes apart: an exception, a result without success, a
\* result with success, with or without extracted content (JSON or not)
\* and with or without markdown
FetchOutcomes ==
    { [kind |-> "exception", extracted_content |-> "none", markdown |-> FALSE,
       error |-> t_timeout],
      [kind |-> "failed", extracted_content |-> "none", markdown |-> FALSE,
       error |-> t_net_error],
      [kind |-> "success", extracted_content |-> "json", markdown |-> TRUE,
       error |-> None],
      [kind |-> "success", extracted_content |-> "not json", markdown |-> TRUE,
       error |-> None],
      [kind |-> "success", extracted_content |-> "none", markdown |-> TRUE,
       error |-> None],
      [kind |-> "success", extracted_content |-> "none", markdown |-> FALSE,
       error |-> None] }

\* json.loads(result.extracted_content): the list the CSS schema yields;
\* {"raw": ...}, a dict with none of the keys read later, when the
\* content is no JSON; None without content
ExtractedContent(extracted_content) ==
    CASE extracted_content = "json" ->
             ExtractedData("list", <<Extracted(t_Banany_spaced, <<>>, t_price_plain,
                                               <<RawOffer(retailers[1], t_price_kg_short,
                                                          None, None, None)>>)>>)
      [] extracted_content = "not json" ->
             ExtractedData("dict", <<Extracted(None, <<>>, None, <<>>)>>)
      [] OTHER -> ExtractedData("none", <<>>)

\* the result_data crawl_url returns for an outcome of the fetch
result_data(url, outcome) ==
    IF outcome.kind = "success"
    THEN CrawlResult(TRUE, url, ExtractedContent(outcome.extracted_content),
                     IF outcome.markdown THEN t_page ELSE None, None)
    ELSE CrawlResult(FALSE, url, ExtractedData("none", <<>>), None, outcome.error)

\* crawl_url(url) from its call to its first await: "raised" when building
\* the extraction strategy raised, else "fetching"
CrawlUrlBegins(schema_mode, env) ==
    IF StrategyRaises(schema_mode, env) THEN "raised" ELSE "fetching"

\* if delay_between and i < len(urls) - 1, with i counted from 1
NeedsDelay_AfterLast(delay_between, i, urls) == delay_between /\ i <= Len(urls)

NeedsDelay(delay_between, i, urls) == delay_between /\ i < Len(urls)

Started(i) == <<"start", i>>

Ended(i) == <<"end", i>>

Delayed(i) == <<"delay", i>>

Queued(i) == <<"wait", i>>

\* crawl_urls: the loop from the top of iteration i to its next await, to
\* the return after the last URL or to the exception crawl_url let out
LoopFrom(i, pcs, tr) ==
    /\ loop_i' = i
    /\ IF i > Len(call.urls)
       THEN /\ batch_pc' = "returned"
            /\ task_pc' = pcs
            /\ trace' = tr
       ELSE /\ task_pc' = [pcs EXCEPT ![i] = CrawlUrlBegins(call.schema_mode, environ)]
            /\ batch_pc' = IF StrategyRaises(call.schema_mode, environ)
                           THEN "raised" ELSE "in crawl_url"
            /\ trace' = Append(tr, Started(i))

\* crawl_urls(urls, schema_mode, delay_between) is called
CrawlUrls ==
    /\ batch_pc = "not called"
    /\ call.method = "crawl_urls"
    /\ results' = <<>>
    /\ LoopFrom(1, [i \in 1..Len(call.urls) |-> "created"], <<>>)
    /\ UNCHANGED <<call, environ, task_result, semaphore>>
    /\ UNCHANGED <<resolverVars, parserVars, processorVars, fieldVars, utilVars, pc>>

\* crawl_urls: the fetch of URL loop_i comes to an end; the result is
\* appended and the loop sleeps or goes on
FetchEnds ==
    /\ call.method = "crawl_urls"
    /\ batch_pc = "in crawl_url"
    /\ \E outcome \in FetchOutcomes :
           /\ results' = Append(results, result_data(call.urls[loop_i], outcome))
           /\ task_result' = [task_result EXCEPT
                                ![loop_i] = result_data(call.urls[loop_i], outcome)]
    /\ IF NeedsDelay(call.delay_between, loop_i, call.urls)
       THEN /\ batch_pc' = "sleeping"
            /\ task_pc' = [task_pc EXCEPT ![loop_i] = "done"]
            /\ trace' = Append(trace, Ended(loop_i))
            /\ loop_i' = loop_i
       ELSE LoopFrom(loop_i + 1, [task_pc EXCEPT ![loop_i] = "done"],
                     Append(trace, Ended(loop_i)))
    /\ UNCHANGED <<call, environ, semaphore>>
    /\ UNCHANGED <<resolverVars, parserVars, processorVars, fieldVars, utilVars, pc>>

\* crawl_urls: asyncio.sleep(self.delay_seconds) is over
SleepEnds ==
    /\ call.method = "crawl_urls"
    /\ batch_pc = "sleeping"
    /\ LoopFrom(loop_i + 1, task_pc, Append(trace, Delayed(loop_i)))
    /\ UNCHANGED <<call, environ, task_result, semaphore, results>>
    /\ UNCHANGED <<resolverVars, parserVars, processorVars, fieldVars, utilVars, pc>>

\* asyncio.Semaphore together with the tasks that wait on it
SemState(sem, pcs) == [value |-> sem.value, waiters |-> sem.waiters, pc |-> pcs]

\* Semaphore.locked(): no slot free, or somebody is queued
locked_Never(sem) == FALSE

locked(sem) == sem.value = 0 \/ sem.waiters # <<>>

\* the queued tasks not woken yet
Sleepers(st) == SelectSeq(st.waiters, LAMBDA t : st.pc[t] = "waiting")

\* Semaphore._wake_up_next(): the first queued task not woken yet gets
\* the slot
WakeUpNext(st) ==
    IF Sleepers(st) = <<>> THEN st
    ELSE [st EXCEPT !.value = @ - 1, !.pc[Head(Sleepers(st))] = "woken"]

\* Semaphore.release(), at the exit of `async with semaphore`
Release(st) == WakeUpNext([st EXCEPT !.value = @ + 1])

\* crawl_with_semaphore inside `async with semaphore`: crawl_url runs to
\* its first await, or raises and the slot is released
Enter(i, st) ==
    IF StrategyRaises(call.schema_mode, environ)
    THEN Release([st EXCEPT !.pc[i] = "raised"])
    ELSE [st EXCEPT !.pc[i] = "fetching"]

\* the semaphore and the tasks become what st says
Becomes(st) ==
    /\ semaphore' = [value |-> st.value, waiters |-> st.waiters]
    /\ task_pc' = st.pc

\* crawl_urls_parallel(urls, schema_mode, max_concurrent) is called: the
\* semaphore and the tasks are made and gather awaits them
CrawlUrlsParallel ==
    /\ batch_pc = "not called"
    /\ call.method = "crawl_urls_parallel"
    /\ semaphore' = [value |-> call.max_concurrent, waiters |-> <<>>]
    /\ task_pc' = [i \in 1..Len(call.urls) |-> "created"]
    /\ batch_pc' = IF call.urls = <<>> THEN "returned" ELSE "gathering"
    /\ results' = <<>>
    /\ UNCHANGED <<call, environ, loop_i, task_result, trace>>
    /\ UNCHANGED <<resolverVars, parserVars, processorVars, fieldVars, utilVars, pc>>

\* task i runs for the first time, after the tasks made before it: it
\* takes a slot and enters crawl_url, or queues on the semaphore
TaskStarts(i) ==
    /\ call.method = "crawl_urls_parallel"
    /\ batch_pc \in {"gathering", "raised"}
    /\ i \in 1..Len(task_pc)
    /\ task_pc[i] = "created"
    /\ \A j \in 1..(i - 1) : task_pc[j] # "created"
    /\ IF locked(semaphore)
       THEN /\ Becomes([SemState(semaphore, task_pc) EXCEPT
                          !.waiters = Append(@, i), !.pc[i] = "waiting"])
            /\ trace' = Append(trace, Queued(i))
       ELSE /\ Becomes(Enter(i, [SemState(semaphore, task_pc) EXCEPT !.value = @ - 1]))
            /\ trace' = Append(trace, Started(i))
    /\ UNCHANGED <<call, environ, batch_pc, loop_i, task_result, results>>
    /\ UNCHANGED <<resolverVars, parserVars, processorVars, fieldVars, utilVars, pc>>

\* the sequence without its member t
Without(seq, t) == SelectSeq(seq, LAMBDA x : x # t)

\* acquire() after `await fut`: the woken task leaves the queue, passes a
\* free slot on if there is one
Dequeued(i, st) ==
    IF st.value > 0
    THEN WakeUpNext([st EXCEPT !.waiters = Without(@, i)])
    ELSE [st EXCEPT !.waiters = Without(@, i)]

\* a woken task i runs again and enters crawl_url
TaskResumes(i) ==
    /\ call.method = "crawl_urls_parallel"
    /\ i \in 1..Len(task_pc)
    /\ task_pc[i] = "woken"
    /\ Becomes(Enter(i, Dequeued(i, SemState(semaphore, task_pc))))
    /\ trace' = Append(trace, Started(i))
    /\ UNCHANGED <<call, environ, batch_pc, loop_i, task_result, results>>
    /\ UNCHANGED <<resolverVars, parserVars, processorVars, fieldVars, utilVars, pc>>

\* the fetch of task i comes to an end: crawl_url returns result_data and
\* the slot is released
TaskFetchEnds(i) ==
    /\ call.method = "crawl_urls_parallel"
    /\ i \in 1..Len(task_pc)
    /\ task_pc[i] = "fetching"
    /\ \E outcome \in FetchOutcomes :
           task_result' = [task_result EXCEPT ![i] = result_data(call.urls[i], outcome)]
    /\ Becomes(Release([SemState(semaphore, task_pc) EXCEPT !.pc[i] = "done"]))
    /\ UNCHANGED <<call, environ, batch_pc, loop_i, results, trace>>
    /\ UNCHANGED <<resolverVars, parserVars, processorVars, fieldVars, utilVars, pc>>

\* asyncio.gather(*tasks): every task has returned, the results are
\* listed in the order of the tasks
GatherReturns ==
    /\ batch_pc = "gathering"
    /\ \A i \in 1..Len(task_pc) : task_pc[i] = "done"
    /\ results' = task_result
    /\ batch_pc' = "returned"
    /\ UNCHANGED <<call, environ, loop_i, task_pc, task_result, semaphore, trace>>
    /\ UNCHANGED <<resolverVars, parserVars, processorVars, fieldVars, utilVars, pc>>

\* asyncio.gather(*tasks) without return_exceptions: the exception of a
\* task is raised to the caller of crawl_urls_parallel
GatherRaises ==
    /\ batch_pc = "gathering"
    /\ \E i \in 1..Len(task_pc) : task_pc[i] = "raised"
    /\ batch_pc' = "raised"
    /\ UNCHANGED <<call, environ, loop_i, task_pc, task_result, semaphore, results, trace>>
    /\ UNCHANGED <<resolverVars, parserVars, processorVars, fieldVars, utilVars, pc>>

\* the calls made: either method, up to MaxUrls URLs
Calls ==
    { [method |-> "crawl_urls", urls |-> Urls(n), schema_mode |-> m,
       max_concurrent |-> 0, delay_between |-> d] :
        n \in 0..MaxUrls, m \in SchemaModes, d \in BOOLEAN }
    \cup { [method |-> "crawl_urls_parallel", urls |-> Urls(n), schema_mode |-> m,
            max_concurrent |-> c, delay_between |-> FALSE] :
             n \in 0..MaxUrls, m \in SchemaModes, c \in 1..MaxConcurrent }

InitCrawl ==
    /\ call \in Calls
    /\ environ \in [LLM_API_KEY : BOOLEAN]
    /\ batch_pc = "not called"
    /\ loop_i = 0
    /\ task_pc = <<>>
    /\ task_result = [i \in 1..Len(call.urls) |-> NoCrawlResult]
    /\ semaphore = NoSemaphore
    /\ results = <<>>
    /\ trace = <<>>
    /\ pc = "ready"
    /\ ResolverIdle
    /\ ParserIdle
    /\ ProcessorIdle
    /\ FieldIdle
    /\ UtilIdle

NextCrawl ==
    \/ CrawlUrls
    \/ FetchEnds
    \/ SleepEnds
    \/ CrawlUrlsParallel
    \/ \E i \in 1..MaxUrls : TaskStarts(i)
    \/ \E i \in 1..MaxUrls : TaskResumes(i)
    \/ \E i \in 1..MaxUrls : TaskFetchEnds(i)
    \/ GatherReturns
    \/ GatherRaises

SpecCrawl == InitCrawl /\ [][NextCrawl]_vars

(***************************************************************************)
(* StorageManager._extract_slug_from_url                                   *)
(***************************************************************************)
\* r'/sleva/([^/?#]+)'
slug_pattern ==
    Lit(<<"/">> \o t_sleva \o <<"/">>)
    \o <<Open(1), Cls(TRUE, {"/", "?", "#"}, 1, Unbounded, FALSE), Close(1)>>

\* url.rstrip('/')
RECURSIVE RStripSlash(_)
RStripSlash(s) ==
    IF s # <<>> /\ s[Len(s)] = "/" THEN RStripSlash(Slice(s, 1, Len(s) - 1)) ELSE s

\* s.split('/')[-1]: what follows the last "/", all of s when it has none
RECURSIVE LastPart(_)
LastPart(s) ==
    IF s = <<>> \/ s[Len(s)] = "/" THEN <<>>
    ELSE LastPart(Slice(s, 1, Len(s) - 1)) \o <<s[Len(s)]>>

\* the slug, given the match of slug_pattern in url
SlugOf(url, match) ==
    IF match.ok THEN Group(url, match, 1)
    ELSE LastPart(RStripSlash(url))

_extract_slug_from_url(url) == SlugOf(url, ReSearch(slug_pattern, 1, url))

MaxSegments == 3

t_origin == <<"h", "t", "t", "p", "s", ":", "/", "/", "w", "w", "w", ".", "k", "u", "p", "i", ".", "c", "z">>

t_banany == <<"b", "a", "n", "a", "n", "y">>

t_page_2 == <<"p", "a", "g", "e", "=", "2">>

t_top == <<"t", "o", "p">>

\* the path segments, the query strings and the fragments of the URLs
Segments == {t_sleva, t_akce, t_banany}

Queries == {None, t_page_2}

Fragments == {None, t_top}

UrlParts(segs, slash, query, fragment) ==
    [segs |-> segs, slash |-> slash, query |-> query, fragment |-> fragment]

\* the URL a record of parts spells
UrlText(parts) ==
    t_origin
    \o (IF parts.segs = <<>> THEN <<>> ELSE <<"/">> \o Join(parts.segs, <<"/">>))
    \o (IF parts.slash THEN <<"/">> ELSE <<>>)
    \o (IF parts.query = None THEN <<>> ELSE <<"?">> \o parts.query)
    \o (IF parts.fragment = None THEN <<>> ELSE <<"#">> \o parts.fragment)

InitSlug ==
    /\ \E segs \in SeqsUpTo(Segments, MaxSegments), slash \in BOOLEAN,
          query \in Queries, fragment \in Fragments :
          slug_parts = UrlParts(segs, slash, query, fragment)
    /\ slug_url = UrlText(slug_parts)
    /\ slug = None
    /\ pc = "ready"
    /\ LoadIdle
    /\ ResolverIdle
    /\ ParserIdle
    /\ ProcessorIdle
    /\ FieldIdle
    /\ CrawlerIdle

\* one call of _extract_slug_from_url(slug_url)
ExtractSlugFromUrl ==
    /\ pc = "ready"
    /\ slug' = _extract_slug_from_url(slug_url)
    /\ pc' = "done"
    /\ UNCHANGED <<slug_url, slug_parts, loadVars>>
    /\ UNCHANGED <<resolverVars, parserVars, processorVars, fieldVars, crawlerVars>>

NextSlug == ExtractSlugFromUrl

SpecSlug == InitSlug /\ [][NextSlug]_vars

(***************************************************************************)
(* load_urls_from_file                                                     *)
(***************************************************************************)
\* the position of the first line terminator of content, 0 when it has none
FirstEnd(content) ==
    IF \E i \in 1..Len(content) : content[i] \in {"\r", "\n"}
    THEN CHOOSE i \in 1..Len(content) :
             /\ content[i] \in {"\r", "\n"}
             /\ \A j \in 1..(i - 1) : content[j] \notin {"\r", "\n"}
    ELSE 0

\* where the next line begins when a terminator is at position i: "\r\n" is
\* one terminator
AfterEnd(content, i) ==
    IF content[i] = "\r" /\ i < Len(content) /\ content[i + 1] = "\n"
    THEN i + 2
    ELSE i + 1

\* `for line in f` on a file opened in text mode: the lines of the content,
\* each with its terminator, which universal newlines turn into "\n"
RECURSIVE ReadLinesFrom(_, _)
ReadLinesFrom(content, end) ==
    IF content = <<>> THEN <<>>
    ELSE IF end = 0 THEN <<content>>
    ELSE <<Slice(content, 1, end - 1) \o <<"\n">>>>
         \o ReadLinesFrom(Slice(content, AfterEnd(content, end), Len(content)),
                          FirstEnd(Slice(content, AfterEnd(content, end), Len(content))))

ReadLines(content) == ReadLinesFrom(content, FirstEnd(content))

\* `if line and not line.startswith('#')`, on the stripped line
KeepsLine_NotEmpty(line) == line # <<>>

KeepsLine(line) == line # <<>> /\ ~StartsWith(line, 1, <<"#">>)

\* the loop over the lines: strip, test, append
RECURSIVE AppendUrls(_, _)
AppendUrls(urls_so_far, lines) ==
    IF lines = <<>> THEN urls_so_far
    ELSE AppendUrls(IF KeepsLine(strip(Head(lines)))
                        THEN Append(urls_so_far, strip(Head(lines)))
                        ELSE urls_so_far,
                    Tail(lines))

\* content is None when no file exists at the path
load_urls_from_file(content) ==
    IF content = None THEN <<>>
    ELSE AppendUrls(<<>>, ReadLines(content))

MaxLines == 3

\* what a line of the batch file says, before its terminator
LineTexts ==
    { Url(1),
      <<" ">> \o Url(2) \o <<"\t">>,
      Url(1) \o <<"#">> \o t_top,
      <<"#">> \o Url(2),
      <<" ", "#", " ", "x">>,
      <<>>,
      <<" ", "\t">> }

LineEnds == {<<"\n">>, <<"\r", "\n">>}

FileLine(txt, eol) == [text |-> txt, eol |-> eol]

\* the files of up to MaxLines lines; the last line may have no terminator
FileLines ==
    UNION {{ls \in [1..k -> [text : LineTexts, eol : LineEnds \cup {<<>>}]] :
               \A i \in 1..(k - 1) : ls[i].eol # <<>>} : k \in 0..MaxLines}

RECURSIVE FileContent(_)
FileContent(ls) ==
    IF ls = <<>> THEN <<>>
    ELSE Head(ls).text \o Head(ls).eol \o FileContent(Tail(ls))

InitLoad ==
    /\ \/ file_lines \in FileLines /\ file_text = FileContent(file_lines)
       \/ file_lines = <<>> /\ file_text = None
    /\ loaded = NotLoaded
    /\ pc = "ready"
    /\ SlugIdle
    /\ ResolverIdle
    /\ ParserIdle
    /\ ProcessorIdle
    /\ FieldIdle
    /\ CrawlerIdle

\* one call of load_urls_from_file on the path of the file
LoadUrlsFromFile ==
    /\ pc = "ready"
    /\ loaded' = load_urls_from_file(file_text)
    /\ pc' = "done"
    /\ UNCHANGED <<file_text, file_lines, slugVars>>
    /\ UNCHANGED <<resolverVars, parserVars, processorVars, fieldVars, crawlerVars>>

NextLoad == LoadUrlsFromFile

SpecLoad == InitLoad /\ [][NextLoad]_vars

(***************************************************************************)
(* What the caller wrote, read off the pieces                              *)
(***************************************************************************)
HasKeyword(ps) == \E i \in 1..Len(ps) : ps[i] \in KeywordPieces

HasEndMarker(ps) == \E i \in 1..Len(ps) : ps[i] \in EndMarkers

HasStartMarker(ps) == \E i \in 1..Len(ps) : ps[i] \in StartMarkers

IsToken(p) == p.k = "date"

\* the year a token stands for: the written one, else the reference year,
\* or the next one for a month before a November/December reference month
StatedYear(p, cur) ==
    IF p.y # 0 THEN p.y
    ELSE IF p.m < cur.month /\ cur.month \in {11, 12} THEN cur.year + 1
    ELSE cur.year

IsCalendarDate(p, cur) == IsToken(p) /\ ValidDate(StatedYear(p, cur), p.m, p.d)

\* the date the resolver gives a token standing alone, None if it gives none
ResolvedAlone(p, cur) ==
    IF IsToken(p) THEN parse_date_range(Render(p), cur).end_date ELSE None

\* the dates of the tokens of ps that resolve, in text order
ResolvedTokens(ps, cur) ==
    LET ds == [i \in 1..Len(ps) |-> ResolvedAlone(ps[i], cur)]
    IN  SelectSeq(ds, LAMBDA d : d # None)

WithoutInvalid(ps, cur) == SelectSeq(ps, LAMBDA p : ~IsToken(p) \/ IsCalendarDate(p, cur))

\* the offsets of the relative keywords
KeywordDays(p) ==
    CASE p = Word(kw_dnes) -> 0
      [] p = Word(kw_zitra) -> 1
      [] p = Word(kw_pozitri) -> 2
      [] p = Word(kw_vcera) -> 0 - 1
      [] p = Word(kw_predevcirem) -> 0 - 2

Iso_2025_12_11 == <<"2", "0", "2", "5", "-", "1", "2", "-", "1", "1">>
Iso_2025_12_13 == <<"2", "0", "2", "5", "-", "1", "2", "-", "1", "3">>
Iso_2025_12_17 == <<"2", "0", "2", "5", "-", "1", "2", "-", "1", "7">>
Iso_2025_12_18 == <<"2", "0", "2", "5", "-", "1", "2", "-", "1", "8">>
Iso_2025_12_19 == <<"2", "0", "2", "5", "-", "1", "2", "-", "1", "9">>

IsExample(d) == \E in \in ExampleInputs : in[2] = d /\ pieces = in[1] /\ current_date = d

Done == pc = "done"

(***************************************************************************)
(* C1: a text with no relative keyword and two or more valid date tokens   *)
(* resolves to (date of the first valid token, date of the last valid      *)
(* token), whatever stands between them; "ct 18. 12. - pa 19. 12." on      *)
(* 2025-12-01 gives (2025-12-18, 2025-12-19) and "13.12. - 17.12." in 2025 *)
(* gives (2025-12-13, 2025-12-17).                                         *)
(***************************************************************************)
C1_FirstAndLast ==
    Done =>
        /\ LET ds == ResolvedTokens(pieces, current_date)
           IN  (~HasKeyword(pieces) /\ Len(ds) >= 2)
                   => date_range = Returned(ds[1], ds[Len(ds)])
        /\ IsExample(Date(2025, 12, 1))
               => date_range = Returned(Iso_2025_12_18, Iso_2025_12_19)
        /\ IsExample(Date(2025, 6, 15))
               => date_range = Returned(Iso_2025_12_13, Iso_2025_12_17)

\* three valid tokens, the middle one ignored
C1_Witness ==
    /\ Done
    /\ pieces = <<Token(wd_ct, 18, 12, 0, TRUE), Token(<<>>, 5, 1, 2026, TRUE),
                  Token(wd_pa, 19, 12, 0, TRUE)>>
    /\ current_date = Date(2024, 3, 1)
    /\ date_range.start_date # None /\ date_range.end_date # None
    /\ date_range.start_date # date_range.end_date

(***************************************************************************)
(* C2: a text with no relative keyword and exactly one valid date token    *)
(* gives that date as end_date when it has an until/ends marker ("do",     *)
(* "konci"), as start_date when it has only a from/starts marker ("od",    *)
(* "zacina"), and as end_date when it has no marker.                       *)
(***************************************************************************)
C2_SingleDateRole ==
    LET ds == ResolvedTokens(pieces, current_date)
    IN  (Done /\ ~HasKeyword(pieces) /\ Len(ds) = 1) =>
            IF HasEndMarker(pieces) THEN date_range = Returned(None, ds[1])
            ELSE IF HasStartMarker(pieces) THEN date_range = Returned(ds[1], None)
            ELSE date_range = Returned(None, ds[1])

\* "od 18. 12." with a month-13 token beside it: the date is the start
C2_Witness ==
    /\ Done
    /\ ~HasKeyword(pieces) /\ HasStartMarker(pieces) /\ ~HasEndMarker(pieces)
    /\ Len(ResolvedTokens(pieces, current_date)) = 1
    /\ date_range.start_date = Iso_2025_12_18 /\ date_range.end_date = None

(***************************************************************************)
(* C3: a text with a relative keyword (dnes 0, zitra +1, pozitri +2,       *)
(* vcera -1, predevcirem -2) and an ends/until marker resolves to          *)
(* (None, reference date + offset); "zitra konci" on 2025-12-10 gives      *)
(* (None, 2025-12-11).                                                     *)
(***************************************************************************)
C3_RelativeEnd ==
    Done =>
        /\ (HasKeyword(pieces) /\ HasEndMarker(pieces)) =>
               \E i \in 1..Len(pieces) :
                   /\ pieces[i] \in KeywordPieces
                   /\ date_range =
                        Returned(None, strftime(AddDays(current_date, KeywordDays(pieces[i]))))
        /\ (pieces = <<Word(kw_zitra), Word(w_konci)>> /\ current_date = Date(2025, 12, 10))
               => date_range = Returned(None, Iso_2025_12_11)

C3_Witness ==
    /\ Done
    /\ pieces = <<Word(kw_zitra), Word(w_konci)>>
    /\ current_date = Date(2025, 12, 10)
    /\ date_range = Returned(None, Iso_2025_12_11)

(***************************************************************************)
(* C4: a text with a relative keyword and no directional marker (no        *)
(* ends/until, no starts/from) gets the offset date as end_date, with      *)
(* start_date = None; the offset date is the start_date only when a        *)
(* starts/from marker is present.                                          *)
(***************************************************************************)
C4_RelativeDefaultsToEnd ==
    (Done /\ HasKeyword(pieces)) =>
        /\ (~HasEndMarker(pieces) /\ ~HasStartMarker(pieces)) =>
               /\ date_range.start_date = None
               /\ date_range.end_date # None
        /\ date_range.start_date # None => HasStartMarker(pieces)

(***************************************************************************)
(* C5: a day.month token without a year resolves to the reference year,    *)
(* or to the reference year + 1 when its month is less than the reference  *)
(* month and the reference month is November or December.                  *)
(***************************************************************************)
C5_AssumedYear ==
    (Done /\ Len(pieces) = 1 /\ IsToken(pieces[1]) /\ pieces[1].y = 0) =>
        LET p == pieces[1]
            year == IF p.m < current_date.month /\ current_date.month \in {11, 12}
                    THEN current_date.year + 1
                    ELSE current_date.year
        IN  IF ValidDate(year, p.m, p.d)
            THEN date_range = Returned(None, strftime(Date(year, p.m, p.d)))
            ELSE date_range = Returned(None, None)

\* "1. 10." seen on 2025-11-15 is 2026-10-01
C5_Witness ==
    /\ Done
    /\ pieces = <<Token(<<>>, 1, 10, 0, TRUE)>>
    /\ current_date = Date(2025, 11, 15)
    /\ date_range.end_date = <<"2", "0", "2", "6", "-", "1", "0", "-", "0", "1">>

(***************************************************************************)
(* C6: a date token that is no calendar date (month 13, 31. 2., ...) does  *)
(* not make resolve raise; it is left out, the scan goes on, and the other *)
(* tokens of the text are resolved and given their roles as if the invalid *)
(* token were not there.                                                   *)
(***************************************************************************)
C6_InvalidTokenSkipped ==
    (Done /\ ~HasKeyword(pieces)
          /\ \E i \in 1..Len(pieces) :
                 IsToken(pieces[i]) /\ ~IsCalendarDate(pieces[i], current_date)) =>
        /\ date_range.raised = "none"
        /\ date_range =
             parse_date_range(TextOf(WithoutInvalid(pieces, current_date)), current_date)

\* "1. 13." first, then two valid tokens: both are used
C6_Witness ==
    /\ Done
    /\ pieces = <<Token(<<>>, 1, 13, 0, TRUE), Token(wd_ct, 18, 12, 0, TRUE),
                  Token(wd_pa, 19, 12, 0, TRUE)>>
    /\ current_date = Date(2025, 12, 10)
    /\ date_range = Returned(Iso_2025_12_18, Iso_2025_12_19)

ParserDone == pc = "done" /\ parsed.raised # "not called"

\* the two offers are equal on retailer name and on parsed price value
SamePair(a, b) == a.retailer_name = b.retailer_name /\ a.price_value = b.price_value

\* the members of ms that no earlier member equals on the pair, in order
RECURSIVE FirstOfEachPair(_, _)
FirstOfEachPair(ms, i) ==
    IF i > Len(ms) THEN <<>>
    ELSE IF \E j \in 1..(i - 1) : SamePair(ms[j], ms[i])
         THEN FirstOfEachPair(ms, i + 1)
         ELSE <<ms[i]>> \o FirstOfEachPair(ms, i + 1)

(***************************************************************************)
(* C8: the text fallback parser never fails: for every text it returns a   *)
(* result without raising, and a captured price fragment that is no        *)
(* number only makes its own offer be left out: the offers of the other    *)
(* matches are returned.                                                   *)
(***************************************************************************)
C8_NeverFails ==
    ParserDone =>
        /\ parsed.raised = "none"
        /\ \A i \in 1..Len(matched) :
              matched[i].price_value # ValueError =>
                  \E k \in 1..Len(parsed.offers) : SamePair(parsed.offers[k], matched[i])

(***************************************************************************)
(* C9: the output of the fallback parser never holds two offers with the   *)
(* same retailer name and the same parsed price value: of the matches      *)
(* equal on both only the first is kept, and the matches that differ in    *)
(* retailer name or in price value are all kept, in the order found.       *)
(***************************************************************************)
C9_FirstOfPairKept ==
    (ParserDone /\ parsed.raised = "none") =>
        /\ \A i, j \in 1..Len(parsed.offers) :
              i # j => ~SamePair(parsed.offers[i], parsed.offers[j])
        /\ parsed.offers = FirstOfEachPair(matched, 1)

\* Lidl at 17,90 and, after "V letaku", Lidl at 17,9: the second is dropped
C9_Witness ==
    /\ ParserDone
    /\ parsed.raised = "none"
    /\ Len(blocks) = 2
    /\ Len(matched) = 2
    /\ matched[1].retailer_name = retailers[1]
    /\ matched[1].price_text = p_17_90 \o <<" ">> \o t_Kc_1_kg
    /\ matched[2].retailer_name = retailers[1]
    /\ matched[2].price_text = p_17_9 \o <<" ">> \o t_Kc_1_kg
    /\ parsed.offers = <<matched[1]>>

\* the validity dicts of the offers of an assembled record
Validities(record) == [i \in 1..Len(record.offers) |-> record.offers[i].validity]

(***************************************************************************)
(* C7: what a validity text resolves to depends on the text and on the     *)
(* reference date supplied, never on the wall clock: two processors given  *)
(* the same crawl result resolve its validity texts to the same dates,     *)
(* whenever they were built and run.                                       *)
(***************************************************************************)
C7_ClockIndependent ==
    \A p, q \in Processors :
        (processed[p].status = "ok" /\ processed[q].status = "ok") =>
            Validities(processed[p]) = Validities(processed[q])

(***************************************************************************)
(* C10: every offer in the offers list of an assembled record has a        *)
(* non-empty retailer name or a parsed price value; an offer with an       *)
(* empty, missing or blank name and a price text that yields no number is  *)
(* not in the list.                                                        *)
(***************************************************************************)
C10_NamedOrPriced ==
    \A p \in Processors :
        processed[p].status = "ok" =>
            \A i \in 1..Len(processed[p].offers) :
                \/ Truthy(processed[p].offers[i].retailer.name)
                \/ /\ processed[p].offers[i].pricing # NoDict
                   /\ processed[p].offers[i].pricing.value # NoneFloat

HasDigit(txt) == \E i \in 1..Len(txt) : txt[i] \in DigitSet

Called(method) == field_result.called = method

(***************************************************************************)
(* C11: for a price text "<number>,<number> Kc / <unit>", also with a      *)
(* unit of several words such as "1 kg", _parse_price gives the number     *)
(* with the comma read as a decimal point, currency CZK and the unit that  *)
(* follows the "/".                                                        *)
(***************************************************************************)
C11_PriceFields ==
    (/\ Called("_parse_price")
     /\ field_parts.kind = "price"
     /\ field_parts.sep = <<",">> /\ field_parts.frac # <<>>
     /\ field_parts.currency = t_Kc /\ field_parts.unit # <<>>) =>
        /\ field_result.pricing # NoDict
        /\ field_result.pricing.value =
              Normalize(int(field_parts.whole \o field_parts.frac), Len(field_parts.frac))
        /\ field_result.pricing.currency = t_CZK
        /\ field_result.pricing.unit = Join(field_parts.unit, <<" ">>)

(***************************************************************************)
(* C12: for a discount text that holds "<int>%", with or without space     *)
(* before the percent sign and with or without a minus or en dash in       *)
(* front, _parse_discount gives percentage = that integer, never negative. *)
(***************************************************************************)
C12_Percentage ==
    (Called("_parse_discount") /\ field_parts.kind = "discount") =>
        /\ field_result.discount # NoDict
        /\ field_result.discount.percentage = int(field_parts.n)
        /\ field_result.discount.percentage >= 0

\* en dash, 55, a space, %
C12_Witness ==
    /\ Called("_parse_discount")
    /\ field_parts = DiscountParts(<<en_dash>>, <<"5", "5">>, <<" ">>, <<>>)
    /\ field_result.discount.percentage = 55

(***************************************************************************)
(* C13: when a non-empty price, discount or store-count text lacks the     *)
(* number looked for, the field (price value, discount percentage, store   *)
(* count) is None, nothing is raised, and the price and discount records   *)
(* carry the text unchanged; and the price value is None only when the     *)
(* price text holds no digit.                                              *)
(***************************************************************************)
C13_NumericMiss ==
    /\ (Called("_parse_price") /\ Truthy(field_text) /\ ~HasDigit(field_text)) =>
          /\ field_result.pricing # NoDict
          /\ field_result.pricing.value = NoneFloat
          /\ field_result.pricing.text = field_text
    /\ (Called("_parse_discount") /\ Truthy(field_text) /\ field_parts.kind # "discount") =>
          /\ field_result.discount # NoDict
          /\ field_result.discount.percentage = NoneInt
          /\ field_result.discount.text = field_text
    /\ (Called("_parse_store_count") /\ Truthy(field_text) /\ ~HasDigit(field_text)) =>
          field_result.count = NoneInt
    /\ (Called("_parse_price") /\ Truthy(field_text) /\ HasDigit(field_text)) =>
          /\ field_result.pricing # NoDict
          /\ field_result.pricing.value # NoneFloat

\* "sleva %" holds a percent sign and no integer
C13_Witness ==
    /\ Called("_parse_discount")
    /\ field_text = t_sleva \o <<" ", "%">>
    /\ field_result.discount.percentage = NoneInt
    /\ field_result.discount.text = field_text

\* processor p has returned from process_crawl_result, with a record, with
\* nothing or with an exception
HasRun(p) == processed[p].status # "not called"

(***************************************************************************)
(* C14: process_crawl_result returns nothing exactly when the crawl result *)
(* says the fetch failed; every successful crawl result, with a payload,   *)
(* with raw text only or with a payload of zero offers, yields a record.   *)
(***************************************************************************)
C14_NothingIffFailed ==
    \A p \in Processors :
        HasRun(p) =>
            processed[p].status = (IF crawl_result.success THEN "ok" ELSE "none")

\* a successful crawl result whose payload holds zero offers
ZeroOffers(result) ==
    /\ result.success
    /\ result.extracted_data.items # <<>>
    /\ result.extracted_data.items[1].offers = <<>>

\* a successful crawl result whose payload holds offers
SomeOffers(result) ==
    /\ result.success
    /\ result.extracted_data.items # <<>>
    /\ result.extracted_data.items[1].offers # <<>>

\* the offers the text parser finds in txt, normalised as the loop of
\* process_crawl_result normalises offers
Recovered(txt, cur) == ProcessOffers(parse_kupi_offers_from_text(txt).offers, cur)

(***************************************************************************)
(* C15: on a successful fetch whose payload holds zero offers, the record's *)
(* offers are the normalised offers the text parser finds in the crawl     *)
(* result's raw text (raw_markdown) when there is one, and none when there *)
(* is no raw text; when the payload holds offers the record's offers are   *)
(* the normalised offers of the payload.                                   *)
(***************************************************************************)
C15_FallbackOnRawText ==
    \A p \in Processors :
        HasRun(p) =>
            /\ (ZeroOffers(crawl_result) /\ Truthy(crawl_result.raw_markdown)) =>
                   /\ processed[p].status = "ok"
                   /\ processed[p].offers =
                          Recovered(crawl_result.raw_markdown, date_parser[p])
            /\ (ZeroOffers(crawl_result) /\ ~Truthy(crawl_result.raw_markdown)) =>
                   /\ processed[p].status = "ok"
                   /\ processed[p].offers = <<>>
            /\ SomeOffers(crawl_result) =>
                   /\ processed[p].status = "ok"
                   /\ processed[p].offers =
                          ProcessOffers(crawl_result.extracted_data.items[1].offers,
                                        date_parser[p])

\* retailer name and parsed price value of a normalised offer
PairOf(offer) ==
    <<offer.retailer.name,
      IF offer.pricing = NoDict THEN NoneFloat ELSE offer.pricing.value>>

(***************************************************************************)
(* C16: the offers list of an assembled record never holds two offers with *)
(* the same retailer name and the same parsed price value, whether they    *)
(* came from the payload or from the text parser.                          *)
(***************************************************************************)
C16_RecordDeduplicated ==
    \A p \in Processors :
        processed[p].status = "ok" =>
            \A i, j \in 1..Len(processed[p].offers) :
                i < j => PairOf(processed[p].offers[i]) # PairOf(processed[p].offers[j])

(***************************************************************************)
(* C17: process_crawl_result reads no clock of its own: two processors     *)
(* with the same reference date that assemble the same crawl result return *)
(* identical records, crawl timestamp included, whenever they run.         *)
(***************************************************************************)
C17_NoClockRead ==
    \A p, q \in Processors :
        (/\ processed[p].status = "ok"
         /\ processed[q].status = "ok"
         /\ date_parser[p] = date_parser[q]) =>
            processed[p] = processed[q]

\* the fetches in flight: begun and not yet ended
InFlight == {i \in 1..Len(task_pc) : task_pc[i] = "fetching"}

\* the fetches that have ended, with success or without
Finished == {i \in 1..Len(task_pc) : task_pc[i] = "done"}

\* the tasks that had to wait for a slot
Waited == {i \in 1..Len(task_pc) : \E k \in 1..Len(trace) : trace[k] = Queued(i)}

\* the fetches begun by a task that had to wait for a slot
StartedAfterWait == {i \in Waited : task_pc[i] \in {"fetching", "done"}}

Parallel == call.method = "crawl_urls_parallel"

Sequential == call.method = "crawl_urls"

(***************************************************************************)
(* C18: during crawl_urls_parallel at most max_concurrent fetches are in   *)
(* flight, whatever the number of URLs and the order in which fetches end, *)
(* and a task that waited for a slot begins its fetch only after a fetch   *)
(* in flight has ended, with success or without: no more waiting tasks     *)
(* have begun than fetches have ended.                                     *)
(***************************************************************************)
C18_AtMostMaxConcurrent ==
    Parallel =>
        /\ Cardinality(InFlight) <= call.max_concurrent
        /\ Cardinality(StartedAfterWait) <= Cardinality(Finished)

\* every slot taken, and a task that waited fetching in the slot of a
\* fetch that failed
C18_Witness ==
    /\ Parallel
    /\ Cardinality(InFlight) = call.max_concurrent
    /\ \E i \in StartedAfterWait : task_pc[i] = "fetching"
    /\ \A j \in Finished : ~task_result[j].success
    /\ \E i \in 1..Len(task_pc) : task_pc[i] = "waiting"

(***************************************************************************)
(* C19: a failure while crawling one URL never leaves crawl_url as an      *)
(* exception, in any schema mode and at any step, building the extraction  *)
(* strategy included: neither batch method raises, and a batch method that *)
(* returns gives one result per URL, in the order of the URLs, a failed    *)
(* one with success false and error set.                                   *)
(***************************************************************************)
C19_FailureIsolated ==
    /\ batch_pc # "raised"
    /\ \A i \in 1..Len(task_pc) : task_pc[i] # "raised"
    /\ batch_pc = "returned" =>
           /\ Len(results) = Len(call.urls)
           /\ \A i \in 1..Len(results) :
                  /\ results[i].url = call.urls[i]
                  /\ ~results[i].success => results[i].error # None

\* the k-th event of a sequential batch with delays: fetch 1 begins and
\* ends, a delay, fetch 2 begins and ends, a delay, ...
ExpectedEvent(k) ==
    CASE k % 3 = 1 -> Started((k + 2) \div 3)
      [] k % 3 = 2 -> Ended((k + 1) \div 3)
      [] OTHER -> Delayed(k \div 3)

\* the delays slept so far
Delays == {k \in 1..Len(trace) : trace[k][1] = "delay"}

(***************************************************************************)
(* C20: in crawl_urls with delay_between, fetches never overlap and are    *)
(* made in the order of the URLs: fetch i+1 begins only after fetch i has  *)
(* ended, with success or without, and one delay has been slept after it;  *)
(* no delay follows the last fetch, and a batch that returns has slept     *)
(* exactly len(urls) - 1 delays.                                           *)
(***************************************************************************)
C20_SequentialWithDelays ==
    (Sequential /\ call.delay_between) =>
        /\ Cardinality(InFlight) <= 1
        /\ \A k \in 1..Len(trace) : trace[k] = ExpectedEvent(k)
        /\ \A k \in Delays : trace[k][2] < Len(call.urls)
        /\ (batch_pc = "returned" /\ call.urls # <<>>) =>
               /\ Cardinality(Delays) = Len(call.urls) - 1
               /\ trace[Len(trace)] = Ended(Len(call.urls))

\* a batch of several URLs has returned, a delay slept after a fetch that
\* failed and the next fetch made
C20_Witness ==
    /\ Sequential
    /\ call.delay_between
    /\ batch_pc = "returned"
    /\ Len(call.urls) = MaxUrls
    /\ ~results[1].success
    /\ results[MaxUrls].success
    /\ Cardinality(Delays) = MaxUrls - 1

(***************************************************************************)
(* C23: a date token with a written four-digit year resolves to exactly    *)
(* that year; the advance by one for a month before a November/December    *)
(* reference month is made only on a year taken from the reference date.   *)
(***************************************************************************)
C23_WrittenYearKept ==
    (Done /\ Len(pieces) = 1 /\ IsToken(pieces[1]) /\ pieces[1].y # 0
          /\ ValidDate(pieces[1].y, pieces[1].m, pieces[1].d)) =>
        date_range =
            Returned(None, strftime(Date(pieces[1].y, pieces[1].m, pieces[1].d)))

\* the pieces that are no date tokens
WithoutTokens(ps) == SelectSeq(ps, LAMBDA p : ~IsToken(p))

\* the date some relative keyword of ps stands for
KeywordDate(ps, cur, date) ==
    \E i \in 1..Len(ps) :
        /\ ps[i] \in KeywordPieces
        /\ date = strftime(AddDays(cur, KeywordDays(ps[i])))

(***************************************************************************)
(* C25: the absolute-date pass runs only when no relative keyword is in    *)
(* the text: for a text with a relative keyword the day.month tokens are   *)
(* ignored (the result is that of the text without them), and exactly one  *)
(* of start_date / end_date is set, to the reference date plus the         *)
(* keyword's offset.                                                       *)
(***************************************************************************)
C25_RelativeOnly ==
    (Done /\ HasKeyword(pieces)) =>
        /\ date_range = parse_date_range(TextOf(WithoutTokens(pieces)), current_date)
        /\ \/ /\ date_range.start_date = None
              /\ KeywordDate(pieces, current_date, date_range.end_date)
           \/ /\ date_range.end_date = None
              /\ KeywordDate(pieces, current_date, date_range.start_date)

\* "13.12. zitra" on 2025-12-10: the token is ignored, the day after is
\* the start
C25_Witness ==
    /\ Done
    /\ pieces = <<Token(<<>>, 13, 12, 0, FALSE), Word(kw_zitra)>>
    /\ current_date = Date(2025, 12, 10)
    /\ date_range = Returned(Iso_2025_12_11, None)

\* the yearless date tokens of ps that are calendar dates
ValidYearless(ps, cur) ==
    SelectSeq(ps, LAMBDA p : IsToken(p) /\ p.y = 0 /\ IsCalendarDate(p, cur))

\* (month, day) of token p is not later in the calendar than that of q
NotLaterInYear(p, q) == p.m < q.m \/ (p.m = q.m /\ p.d <= q.d)

\* ISO dates of one length compare as their digits do
RECURSIVE IsoLeq(_, _)
IsoLeq(a, b) ==
    IF a = <<>> THEN TRUE
    ELSE IF Head(a) = Head(b) THEN IsoLeq(Tail(a), Tail(b))
    ELSE \E i, j \in 1..10 : i < j /\ Digits[i] = Head(a) /\ Digits[j] = Head(b)

(***************************************************************************)
(* C26: for a text whose date tokens are two or more valid yearless        *)
(* tokens, the first not later in the calendar (month, day) than the last, *)
(* the start_date returned is not later than the end_date.                 *)
(***************************************************************************)
C26_StartNotAfterEnd ==
    LET ts == ValidYearless(pieces, current_date)
    IN  (Done /\ ~HasKeyword(pieces) /\ Len(ts) >= 2
              /\ \A i \in 1..Len(pieces) : IsToken(pieces[i]) => pieces[i].y = 0
              /\ NotLaterInYear(ts[1], ts[Len(ts)])) =>
            /\ date_range.start_date # None
            /\ date_range.end_date # None
            /\ IsoLeq(date_range.start_date, date_range.end_date)

\* what the text parser makes of the text the fallback gives it
FallbackParse(result) ==
    parse_kupi_offers_from_text(result.extracted_data.items[1].regular_price_text)

\* the fallback was taken and recovered offers
FallbackTaken(result) ==
    /\ ZeroOffers(result)
    /\ Truthy(result.extracted_data.items[1].regular_price_text)
    /\ FallbackParse(result).raised = "none"
    /\ FallbackParse(result).offers # <<>>

\* the normalised offers keep what the parser captured in its offers
KeepsCaptured(offers, parser_offers) ==
    /\ Len(offers) = Len(parser_offers)
    /\ \A i \in 1..Len(offers) :
           /\ offers[i].pricing # NoDict
           /\ offers[i].pricing.value = parser_offers[i].price_value
           /\ offers[i].discount # NoDict
           /\ offers[i].discount.percentage = parser_offers[i].discount_percentage
           /\ offers[i].store_locations.count = parser_offers[i].store_count

(***************************************************************************)
(* C24: the offers recovered by the fallback parser are normalised without *)
(* losing what the parser captured: in the assembled record every fallback *)
(* offer has the discount percentage, the store count and the price value  *)
(* the parser captured for it.                                             *)
(***************************************************************************)
C24_FallbackFieldsKept ==
    \A p \in Processors :
        (processed[p].status = "ok" /\ FallbackTaken(crawl_result)) =>
            KeepsCaptured(processed[p].offers, FallbackParse(crawl_result).offers)

\* the product name of the record when the fallback recovered offers: the
\* name the parser found, the payload's name when it found none
NameOnFallback(parser_name, payload_name) ==
    IF parser_name # None THEN StripOrNone(parser_name) ELSE StripOrNone(payload_name)

(***************************************************************************)
(* C27: on the fallback path the product name of the structured payload is *)
(* not lost: when the parser recovers offers but finds no product name in  *)
(* the text, the record's product name is the payload's; it is replaced    *)
(* only by a name the parser found.                                        *)
(***************************************************************************)
C27_PayloadNameKept ==
    \A p \in Processors :
        (processed[p].status = "ok" /\ FallbackTaken(crawl_result)) =>
            processed[p].product.name =
                NameOnFallback(FallbackParse(crawl_result).product_name,
                               crawl_result.extracted_data.items[1].product_name)

\* block b shows for its retailer what the offer says
FromBlock(offer, b) ==
    /\ offer.retailer_name = retailers[b.r]
    /\ b.price # None
    /\ offer.price_text = b.price \o <<" ">> \o t_Kc_1_kg
    /\ offer.discount_percentage = b.discount
    /\ offer.store_count = b.count
    /\ offer.validity_text = t_validity

(***************************************************************************)
(* C28: every offer of the fallback parser takes its price, discount and   *)
(* validity from the block of its own retailer occurrence, the text up to  *)
(* the next retailer name: a retailer whose block shows no price gets no   *)
(* offer, never the price, discount or validity of a later block.          *)
(***************************************************************************)
C28_OfferFromOwnBlock ==
    (ParserDone /\ parsed.raised = "none") =>
        \A k \in 1..Len(parsed.offers) :
            \E i \in 1..Len(blocks) : FromBlock(parsed.offers[k], blocks[i])

\* the call of _extract_slug_from_url has returned
SlugDone == pc = "done" /\ slug # None

\* the path has a segment "sleva" with a segment after it
MarkerAt(parts, i) == i < Len(parts.segs) /\ parts.segs[i] = t_sleva

\* the path has segments and none of them is "sleva"
NoMarker(parts) ==
    /\ parts.segs # <<>>
    /\ \A i \in 1..Len(parts.segs) : parts.segs[i] # t_sleva

\* the position of the first "sleva" segment that has a segment after it
FirstMarker(parts) ==
    CHOOSE i \in 1..Len(parts.segs) :
        MarkerAt(parts, i) /\ \A j \in 1..(i - 1) : ~MarkerAt(parts, j)

(***************************************************************************)
(* C22: the slug of a URL is the path segment after "/sleva/", without     *)
(* query string, fragment or further path; for a URL without the "/sleva/" *)
(* marker it is the last path segment of the URL.                          *)
(***************************************************************************)
C22_SlugOfUrl ==
    SlugDone =>
        /\ (\E i \in 1..Len(slug_parts.segs) : MarkerAt(slug_parts, i)) =>
               slug = slug_parts.segs[FirstMarker(slug_parts) + 1]
        /\ NoMarker(slug_parts) => slug = slug_parts.segs[Len(slug_parts.segs)]

\* the claim for the URLs with the marker, and for those without it that
\* have no query string and no fragment
SlugOfPlainUrl ==
    SlugDone =>
        /\ (\E i \in 1..Len(slug_parts.segs) : MarkerAt(slug_parts, i)) =>
               slug = slug_parts.segs[FirstMarker(slug_parts) + 1]
        /\ (NoMarker(slug_parts) /\ slug_parts.query = None
                                 /\ slug_parts.fragment = None) =>
               slug = slug_parts.segs[Len(slug_parts.segs)]

\* the call of load_urls_from_file has returned
LoadDone == pc = "done" /\ loaded # NotLoaded

\* a line of the file is blank, or a comment, once the whitespace around it
\* is removed
Blank(l) == strip(l.text) = <<>>

CommentLine(l) == ~Blank(l) /\ Head(strip(l.text)) = "#"

\* the lines of the file that are neither, in file order, without the
\* whitespace around them
RECURSIVE UrlLines(_)
UrlLines(ls) ==
    IF ls = <<>> THEN <<>>
    ELSE (IF Blank(Head(ls)) \/ CommentLine(Head(ls)) THEN <<>>
          ELSE <<strip(Head(ls).text)>>) \o UrlLines(Tail(ls))

(***************************************************************************)
(* C21: load_urls_from_file returns, in file order, exactly the lines of   *)
(* the file that are neither blank nor comments (first character "#"),     *)
(* each without the whitespace around it; no blank line and no comment     *)
(* line is in the result; a missing file gives the empty list.             *)
(***************************************************************************)
C21_UrlsOfFile ==
    LoadDone =>
        /\ file_text = None => loaded = <<>>
        /\ file_text # None => loaded = UrlLines(file_lines)
        /\ \A k \in 1..Len(loaded) :
               /\ loaded[k] # <<>>
               /\ Head(loaded[k]) # "#"
               /\ loaded[k] = strip(loaded[k])

\* a file with a comment, a blank line, an indented comment and two URLs
\* with whitespace around one of them has been loaded
C21_Witness ==
    /\ LoadDone
    /\ file_text # None
    /\ Len(loaded) = 2
    /\ loaded[1] # loaded[2]
    /\ \E i \in 1..Len(file_lines) : CommentLine(file_lines[i])
    /\ \E i \in 1..Len(file_lines) :
           ~Blank(file_lines[i]) /\ ~CommentLine(file_lines[i])
           /\ file_lines[i].text # strip(file_lines[i].text)

\* a missing file has been loaded
C21_WitnessMissing == LoadDone /\ file_text = None /\ loaded = <<>>

=============================================================================
